---- MODULE Spec2Model ----
(***************************************************************************)
(* The command-line scripts of the skills directory as one state machine:  *)
(* a run picks a script and an argument vector, parses the arguments,      *)
(* executes the script's steps (file reads, browser launch, awaited        *)
(* browser calls, output writes) inside its try / catch / finally          *)
(* structure and ends with an exit status.  The monitoring loop of         *)
(* monitor_dashboard.js is modelled statement by statement.                *)
(***************************************************************************)
EXTENDS Integers, Sequences, FiniteSets, TLC

VARIABLES
  script,     \* the script being run
  argv,       \* process.argv.slice(2)
  config,     \* the object parseArgs returns (flag-style scripts)
  pc,         \* "parse", "run", "catch", "finally", "after", "exited"
  ip,         \* index of the next step of the script's body
  exitCode,   \* Running until the process has ended, then its exit status
  browser,    \* "none", "open", "closed"
  stderr,     \* something was written with console.error
  usage,      \* the usage text was printed
  io,         \* number of file reads, file writes and browser launches so far
  writes,     \* number of completed writes of the output file
  output,     \* content of the output file (monitor_dashboard: the results array)
  results,    \* monitor_dashboard: the in-memory results list
  i,          \* monitor_dashboard: loop variable of the check loop
  cpc,        \* monitor_dashboard: position inside the loop body
  anomalies,  \* monitor_dashboard: anomalies of the check in progress
  page,       \* monitor_dashboard: the document loaded by the last page.goto
  clock,      \* the wall clock read by new Date()
  caught,     \* the outermost catch block has been entered
  pending,    \* a promise rejection nobody handles is pending
  failed,     \* test_page / testing_template: at least one test failed
  call,       \* the function applied on its own ("none" during a script run)
  input,      \* the argument of that function
  result,     \* what it returned (NotCalled before the call)
  site,       \* scraper_template: site[p] = page p holds a '.next-page' element
  currentPage,  \* scraper_template: currentPage of the pagination loop
  nextButton, \* scraper_template: what page.$('.next-page') returned last (TRUE: an element)
  navigations, \* scraper_template: next-page navigations started so far
  ppc         \* scraper_template: position in the pagination loop

vars == <<script, argv, config, pc, ip, exitCode, browser, stderr, usage, io,
          writes, output, results, i, cpc, anomalies, page, clock, caught, pending,
          failed,
          call, input, result, site, currentPage, nextButton, navigations, ppc>>

\* the variables of a function applied on its own
callVars == <<call, input, result>>
\* the variables of the pagination loop of scraper_template
pageVars == <<site, currentPage, nextButton, navigations, ppc>>
\* the variables of a script run
runVars == <<script, argv, config, pc, ip, exitCode, browser, stderr, usage, io,
             writes, output, results, i, cpc, anomalies, page, clock, caught, pending,
             failed>>

-----------------------------------------------------------------------------
(* Bounds of the model.                                                    *)

\* largest value given to --checks
MaxChecks == 2
\* longest argument vector
MaxArgs == 4

-----------------------------------------------------------------------------
(* JavaScript values.                                                      *)

Undefined == "<undefined>"
Null == "<null>"
\* parseInt of something that is no number
NaN == -1
\* exitCode while the process is alive
Running == -1
\* exit status of a process ended by SIGINT
SigInt == 130

Truthy(v) == v \notin {Undefined, Null, ""}

\* args[k] for a 0-based k, undefined past the end
ArgAt(args, k) == IF k < Len(args) THEN args[k + 1] ELSE Undefined

\* parseInt(tok, 10) on the tokens of the model: decimal numerals 0..MaxChecks+1
ParseInt(tok) ==
  IF \E n \in 0..(MaxChecks + 1) : ToString(n) = tok
  THEN CHOOSE n \in 0..(MaxChecks + 1) : ToString(n) = tok
  ELSE NaN


-----------------------------------------------------------------------------
(* Argument parsing.                                                       *)

\* the config object before the loop over the arguments; output is the
\* script's default output path
DefaultConfig(out) ==
  [url |-> Null, selector |-> Null, action |-> Null, input |-> Null,
   output |-> out, file2 |-> Null, checkCount |-> 1]

\* one case of the switch: the flag's value is args[++i]
Assign(cfg, flag, v) ==
  CASE flag = "--url"      -> [cfg EXCEPT !.url = v]
    [] flag = "--selector" -> [cfg EXCEPT !.selector = v]
    [] flag = "--action"   -> [cfg EXCEPT !.action = v]
    [] flag = "--input"    -> [cfg EXCEPT !.input = v]
    [] flag = "--output"   -> [cfg EXCEPT !.output = v]
    [] flag = "--file2"    -> [cfg EXCEPT !.file2 = v]
    [] flag = "--checks"   -> [cfg EXCEPT !.checkCount = ParseInt(v)]
    [] OTHER               -> cfg

\* for (let i = 0; i < args.length; i++) switch (args[i]) { ... }
\* a flag with a value consumes the next argument whatever it is; --help
\* prints the usage and exits 0; anything else is skipped
RECURSIVE ParseLoop(_, _, _, _)
ParseLoop(valueFlags, args, k, cfg) ==
  IF k >= Len(args) THEN [exit |-> Running, usage |-> FALSE, cfg |-> cfg]
  ELSE IF args[k + 1] \in valueFlags
       THEN ParseLoop(valueFlags, args, k + 2, Assign(cfg, args[k + 1], ArgAt(args, k + 1)))
  ELSE IF args[k + 1] = "--help"
       THEN [exit |-> 0, usage |-> TRUE, cfg |-> cfg]
  ELSE ParseLoop(valueFlags, args, k + 1, cfg)

\* if (!config.<key>) { console.error(...); process.exit(1); } for each
\* required key, after the loop
RequiredCheck(required, cfg) ==
  IF \E n \in 1..Len(required) : ~Truthy(cfg[required[n]]) THEN 1 ELSE Running


-----------------------------------------------------------------------------
(* The scripts.  A script is described by how it parses its arguments and  *)
(* by the try / catch / finally structure around its body:                 *)
(*   style        "flags" (a parseArgs switch), "positional" (a length     *)
(*                test on the arguments) or "none" (arguments not read)    *)
(*   valueFlags   the flags whose case reads args[++i]                     *)
(*   required     the config keys parseArgs insists on                     *)
(*   minArgs      the least number of positional arguments                 *)
(*   out          the default of config.output                             *)
(*   tryFrom      index of the first body step inside the try block        *)
(*   catchKind    "exit": log and process.exit(1); "log": log only;        *)
(*                "shot_exit" / "shot_log": take an error screenshot first *)
(*   finallyKind  "close_if": if (browser) await browser.close();          *)
(*                "close": await browser.close(); "none": no finally       *)
(*   afterKind    "exit_if_failed": process.exit(1) after the finally      *)
(*                block when a test failed; "none"                         *)
(***************************************************************************)

monitor_dashboard ==
  [style |-> "flags",
   valueFlags |-> {"--url", "--interval", "--output", "--headless", "--timeout", "--checks"},
   required |-> <<"url">>, minArgs |-> 0, out |-> "dashboard_status.json",
   tryFrom |-> 1, catchKind |-> "exit", finallyKind |-> "close_if", afterKind |-> "none"]

check_gtm ==
  [style |-> "flags",
   valueFlags |-> {"--url", "--output", "--headless", "--timeout"},
   required |-> <<"url">>, minArgs |-> 0, out |-> "gtm_report.json",
   tryFrom |-> 1, catchKind |-> "exit", finallyKind |-> "close_if", afterKind |-> "none"]

extract_data ==
  [style |-> "flags",
   valueFlags |-> {"--url", "--selector", "--output", "--format", "--headless", "--timeout"},
   required |-> <<"url", "selector">>, minArgs |-> 0, out |-> "extracted_data.json",
   tryFrom |-> 1, catchKind |-> "exit", finallyKind |-> "close_if", afterKind |-> "none"]

excel_advanced ==
  [style |-> "flags",
   valueFlags |-> {"--action", "--input", "--output", "--sheet", "--range",
                   "--chart-type", "--data-cols", "--title", "--file2"},
   required |-> <<"action">>, minArgs |-> 0, out |-> Null,
   tryFrom |-> 1, catchKind |-> "exit", finallyKind |-> "none", afterKind |-> "none"]

pptx_advanced ==
  [style |-> "flags",
   valueFlags |-> {"--action", "--input", "--output", "--title", "--subtitle",
                   "--theme", "--author"},
   required |-> <<"action">>, minArgs |-> 0, out |-> "presentation.pptx",
   tryFrom |-> 1, catchKind |-> "exit", finallyKind |-> "none", afterKind |-> "none"]

docx_advanced ==
  [style |-> "flags",
   valueFlags |-> {"--action", "--input", "--output", "--title", "--author", "--template"},
   required |-> <<"action">>, minArgs |-> 0, out |-> "document.docx",
   tryFrom |-> 1, catchKind |-> "exit", finallyKind |-> "none", afterKind |-> "none"]

\* a script taking n positional arguments whose body opens a browser inside
\* try { } catch { process.exit(1) } finally { if (browser) close }
BrowserScript(n, catch) ==
  [style |-> "positional", valueFlags |-> {}, required |-> <<>>, minArgs |-> n,
   out |-> Null, tryFrom |-> 1, catchKind |-> catch, finallyKind |-> "close_if",
   afterKind |-> "none"]

\* a script taking n positional arguments whose body is
\* try { } catch { process.exit(1) } around file reads and writes
FileScript(n) ==
  [style |-> "positional", valueFlags |-> {}, required |-> <<>>, minArgs |-> n,
   out |-> Null, tryFrom |-> 1, catchKind |-> "exit", finallyKind |-> "none",
   afterKind |-> "none"]

\* a template: no argument parsing, the browser is launched before the try
\* block and the catch block only logs
Template(catch, after) ==
  [style |-> "none", valueFlags |-> {}, required |-> <<>>, minArgs |-> 0,
   out |-> Null, tryFrom |-> 2, catchKind |-> catch, finallyKind |-> "close",
   afterKind |-> after]

fill_form == BrowserScript(2, "shot_exit")
scrape_data == BrowserScript(3, "exit")
generate_pdf == BrowserScript(2, "exit")
screenshot == BrowserScript(2, "exit")
test_page == BrowserScript(2, "exit")

csv_to_excel == FileScript(2)
create_charts == FileScript(2)
create_professional_doc == FileScript(2)
create_financial_model == FileScript(2)
excel_to_csv == FileScript(2)
merge_pdfs_js == FileScript(3)
annotate_pdf == FileScript(3)
fill_pdf_template == FileScript(3)
create_presentation == FileScript(2)

scraper_template == Template("log", "none")
form_automation_template == Template("shot_log", "none")
testing_template == Template("log", "exit_if_failed")

ChromeCli == {"monitor_dashboard", "check_gtm", "extract_data"}
OfficeCli == {"excel_advanced", "pptx_advanced", "docx_advanced"}
BrowserScripts == {"fill_form", "scrape_data", "generate_pdf", "screenshot", "test_page"}
FileScripts == {"csv_to_excel", "create_charts", "create_professional_doc",
                "create_financial_model", "excel_to_csv", "merge_pdfs_js",
                "annotate_pdf", "fill_pdf_template", "create_presentation"}
Templates == {"scraper_template", "form_automation_template", "testing_template"}
Scripts == ChromeCli \cup OfficeCli \cup BrowserScripts \cup FileScripts \cup Templates

ScriptDef(s) ==
  CASE s = "monitor_dashboard" -> monitor_dashboard
    [] s = "check_gtm" -> check_gtm
    [] s = "extract_data" -> extract_data
    [] s = "excel_advanced" -> excel_advanced
    [] s = "pptx_advanced" -> pptx_advanced
    [] s = "docx_advanced" -> docx_advanced
    [] s = "fill_form" -> fill_form
    [] s = "scrape_data" -> scrape_data
    [] s = "generate_pdf" -> generate_pdf
    [] s = "screenshot" -> screenshot
    [] s = "test_page" -> test_page
    [] s = "csv_to_excel" -> csv_to_excel
    [] s = "create_charts" -> create_charts
    [] s = "create_professional_doc" -> create_professional_doc
    [] s = "create_financial_model" -> create_financial_model
    [] s = "excel_to_csv" -> excel_to_csv
    [] s = "merge_pdfs_js" -> merge_pdfs_js
    [] s = "annotate_pdf" -> annotate_pdf
    [] s = "fill_pdf_template" -> fill_pdf_template
    [] s = "create_presentation" -> create_presentation
    [] s = "scraper_template" -> scraper_template
    [] s = "form_automation_template" -> form_automation_template
    [] s = "testing_template" -> testing_template

\* what the code before the script's main function decides: the exit status
\* (Running: go on), whether the usage text was printed, and the config
ParseArgs(s, args) ==
  LET def == ScriptDef(s)
      cfg0 == DefaultConfig(def.out)
  IN CASE def.style = "flags" ->
            LET r == ParseLoop(def.valueFlags, args, 0, cfg0)
            IN IF r.exit # Running THEN r
               ELSE [exit |-> RequiredCheck(def.required, r.cfg), usage |-> FALSE, cfg |-> r.cfg]
       [] def.style = "positional" ->
            [exit |-> IF Len(args) < def.minArgs THEN 1 ELSE Running,
             usage |-> Len(args) < def.minArgs, cfg |-> cfg0]
       [] def.style = "none" ->
            [exit |-> Running, usage |-> FALSE, cfg |-> cfg0]


-----------------------------------------------------------------------------
(* The bodies of the scripts, as the sequence of their steps:              *)
(*   read    a file is read (throws when the path is missing or unreadable)*)
(*   launch  the browser is launched                                       *)
(*   op      an awaited browser or library call                            *)
(*   write   the output file is written                                    *)
(*   write_opt   the output file is written if the input asks for it       *)
(*   checks  the check loop of monitor_dashboard                           *)
(*   tests   the tests of test_page / testing_template are run             *)
(*   exit_if_failed   if (failed > 0) process.exit(1)                      *)
(*   error_return     console.error(...); return                           *)
(*   error_exit       console.error(...); process.exit(1)                  *)
(***************************************************************************)

Step(k, path) == [k |-> k, path |-> path]
Op == Step("op", "-")
Launch == Step("launch", "-")

\* monitorDashboardSteps saving the results before the loop as well
monitorDashboardStepsEarlySave(cfg) ==
  <<Launch, Op, Op, Step("write", cfg.output), Step("checks", "-"),
    Step("write", cfg.output)>>

monitorDashboardSteps(cfg) ==
  <<Launch, Op, Op, Step("checks", "-"), Step("write", cfg.output)>>

checkGTMSteps(cfg) ==
  <<Launch, Op, Op, Op, Op, Op, Step("write", cfg.output)>>

extractDataSteps(cfg) ==
  <<Launch, Op, Op, Op, Op, Op, Op, Step("write", cfg.output)>>

\* the screenshot is taken only if (screenshotPath)
fillFormSteps(args) ==
  <<Step("read", args[2]), Launch, Op, Op, Op, Op>>
  \o (IF Truthy(ArgAt(args, 2)) THEN <<Step("write", args[3])>> ELSE <<>>)

scrapeDataSteps(args) ==
  <<Step("read", args[2]), Launch, Op, Op, Op, Op, Step("write", args[3])>>

generatePDFSteps(args) ==
  <<Launch, Op, Op, Step("write", args[2])>>

takeScreenshotSteps(args) ==
  <<Launch, Op, Op, Op, Step("write", args[2])>>

testPageSteps(args) ==
  <<Step("read", args[2]), Launch, Op, Op, Op, Step("tests", "-"),
    Step("write_opt", "-"), Step("exit_if_failed", "-")>>

scrapeWebsiteSteps ==
  <<Launch, Op, Op, Op, Op, Op, Op, Step("write", "scraped_data.json")>>

automateFormSteps ==
  <<Launch, Op, Op, Op, Op, Op, Op, Op, Op, Op, Op, Op,
    Step("write", "form_submitted.png")>>

runTestsSteps ==
  <<Launch, Op, Op, Step("tests", "-")>>

csvToExcelSteps(args) == <<Step("read", args[1]), Step("write", args[2])>>
createChartsSteps(args) == <<Step("read", args[1]), Step("write", args[2])>>
createProfessionalDocumentSteps(args) == <<Step("read", args[1]), Op, Step("write", args[2])>>
createFinancialModelSteps(args) == <<Step("read", args[1]), Step("write", args[2])>>
excelToCSVSteps(args) == <<Step("read", args[1]), Step("write", args[2])>>
createPresentationSteps(args) == <<Step("read", args[1]), Step("write", args[2])>>

\* for (const inputPath of inputPaths) { read; load; copyPages }, save, write
mergePDFsSteps(args) ==
  [n \in 1..(3 * (Len(args) - 1)) |->
     IF n % 3 = 1 THEN Step("read", args[((n - 1) \div 3) + 2]) ELSE Op]
  \o <<Op, Step("write", args[1])>>

annotatePDFSteps(args) ==
  <<Step("read", args[1]), Op, Step("read", args[2]), Op, Op, Op, Step("write", args[3])>>

fillPDFTemplateSteps(args) ==
  <<Step("read", args[1]), Op, Step("read", args[2]), Op, Op, Op, Step("write", args[3])>>

\* excel_advanced.js
analyzeDataSteps(cfg) == <<Step("read", cfg.input), Step("write", cfg.output)>>
createChartSteps(cfg) == <<Step("read", cfg.input), Step("write", cfg.output)>>
addAutofilterSteps(cfg) == <<Step("read", cfg.input), Step("write", cfg.output)>>

\* if (!config.params.file2) { console.error(...); return; }
compareFilesSteps(cfg) ==
  IF ~Truthy(cfg.file2) THEN <<Step("error_return", "-")>>
  ELSE <<Step("read", cfg.input), Step("read", cfg.file2), Step("write", cfg.output)>>

excelMain(cfg) ==
  CASE cfg.action = "analyze" -> analyzeDataSteps(cfg)
    [] cfg.action = "create-chart" -> createChartSteps(cfg)
    [] cfg.action = "autofilter" -> addAutofilterSteps(cfg)
    [] cfg.action = "compare" -> compareFilesSteps(cfg)
    [] OTHER -> <<Step("error_exit", "-")>>

\* pptx_advanced.js and docx_advanced.js:
\* if (!config.input) { console.error(...); process.exit(1); }
createFromJSONSteps(cfg) ==
  IF ~Truthy(cfg.input) THEN <<Step("error_exit", "-")>>
  ELSE <<Step("read", cfg.input), Step("write", cfg.output)>>

createSlideSteps(cfg) == <<Step("write", cfg.output)>>

pptxMain(cfg) ==
  CASE cfg.action = "from-json" -> createFromJSONSteps(cfg)
    [] cfg.action \in {"title-slide", "agenda", "comparison"} -> createSlideSteps(cfg)
    [] OTHER -> <<Step("error_exit", "-")>>

createDocumentSteps(cfg) == <<Op, Step("write", cfg.output)>>

docxCreateFromJSONSteps(cfg) ==
  IF ~Truthy(cfg.input) THEN <<Step("error_exit", "-")>>
  ELSE <<Step("read", cfg.input), Op, Step("write", cfg.output)>>

docxMain(cfg) ==
  CASE cfg.action = "from-json" -> docxCreateFromJSONSteps(cfg)
    [] cfg.action \in {"report", "letter"} -> createDocumentSteps(cfg)
    [] OTHER -> <<Step("error_exit", "-")>>

Program(s, cfg, args) ==
  CASE s = "monitor_dashboard" -> monitorDashboardSteps(cfg)
    [] s = "check_gtm" -> checkGTMSteps(cfg)
    [] s = "extract_data" -> extractDataSteps(cfg)
    [] s = "excel_advanced" -> excelMain(cfg)
    [] s = "pptx_advanced" -> pptxMain(cfg)
    [] s = "docx_advanced" -> docxMain(cfg)
    [] s = "fill_form" -> fillFormSteps(args)
    [] s = "scrape_data" -> scrapeDataSteps(args)
    [] s = "generate_pdf" -> generatePDFSteps(args)
    [] s = "screenshot" -> takeScreenshotSteps(args)
    [] s = "test_page" -> testPageSteps(args)
    [] s = "csv_to_excel" -> csvToExcelSteps(args)
    [] s = "create_charts" -> createChartsSteps(args)
    [] s = "create_professional_doc" -> createProfessionalDocumentSteps(args)
    [] s = "create_financial_model" -> createFinancialModelSteps(args)
    [] s = "excel_to_csv" -> excelToCSVSteps(args)
    [] s = "merge_pdfs_js" -> mergePDFsSteps(args)
    [] s = "annotate_pdf" -> annotatePDFSteps(args)
    [] s = "fill_pdf_template" -> fillPDFTemplateSteps(args)
    [] s = "create_presentation" -> createPresentationSteps(args)
    [] s = "scraper_template" -> scrapeWebsiteSteps
    [] s = "form_automation_template" -> automateFormSteps
    [] s = "testing_template" -> runTestsSteps


-----------------------------------------------------------------------------
(* monitor_dashboard.js: the dashboard, anomaly detection and the result   *)
(* records.                                                                *)

ErrorSelectors == <<".error-message", ".data-error", "[data-error]", ".alert-danger", ".warning">>
LoadingSelectors == <<".loading", ".spinner", "[data-loading=true]">>
ChartSelectors == <<"svg[class*=chart]", "canvas[class*=chart]", ".chart-container">>

\* a bounding box; boundingBox() is null for an element that is not rendered
Box(w, h) == [present |-> TRUE, width |-> w, height |-> h]
NoBox == [present |-> FALSE, width |-> 0, height |-> 0]

\* A loaded document, as the DOM queries of the script see it:
\*   errors[k]    number of elements matching ErrorSelectors[k]
\*   loading[k]   number of elements matching LoadingSelectors[k]
\*   tables[k]    number of rows of the k-th table
\*   charts[k]    bounding boxes of the elements matching ChartSelectors[k]
\*   metrics      number of metric elements
\*   throwAt      the number of the query of detectAnomalies that throws (0: none)
\*   extractFails a query inside extractDashboardData's try block throws
CleanPage ==
  [errors |-> <<0, 0, 0, 0, 0>>, loading |-> <<0, 0, 0>>, tables |-> <<3>>,
   charts |-> << <<Box(400, 300)>>, <<>>, <<>> >>, metrics |-> 2,
   throwAt |-> 0, extractFails |-> FALSE]

BrokenPage ==
  [errors |-> <<2, 0, 0, 1, 0>>, loading |-> <<0, 2, 0>>, tables |-> <<1, 5, 0>>,
   charts |-> << <<Box(5, 300)>>, <<NoBox>>, <<Box(400, 9), Box(400, 300)>> >>,
   metrics |-> 0, throwAt |-> 0, extractFails |-> TRUE]

FlakyPage ==
  [errors |-> <<1, 0, 0, 0, 0>>, loading |-> <<1, 0, 0>>, tables |-> <<0>>,
   charts |-> << <<>>, <<>>, <<>> >>, metrics |-> 1,
   throwAt |-> 7, extractFails |-> FALSE]

\* the broken page with the bounding box of its canvas chart throwing
CrashingPage == [BrokenPage EXCEPT !.throwAt = 19]

Pages == {CleanPage, BrokenPage, FlakyPage, CrashingPage}

\* Each function below gives, for one part of the checklist, its awaited
\* DOM queries in the order they are made, each with the anomalies pushed
\* once it has resolved (none or one).

\* for (const selector of errorSelectors): page.$$(selector), then for
\* (const error of errors): error.textContent() and push
RECURSIVE ErrorAnomalies(_, _)
ErrorAnomalies(p, k) ==
  IF k > Len(ErrorSelectors) THEN <<>>
  ELSE <<<<>>>>
       \o [j \in 1..p.errors[k] |-> <<[type |-> "error", selector |-> ErrorSelectors[k]]>>]
       \o ErrorAnomalies(p, k + 1)

\* for (const selector of loadingSelectors): page.$$(selector) and
\* if (loading.length > 0) push
RECURSIVE LoadingAnomalies(_, _)
LoadingAnomalies(p, k) ==
  IF k > Len(LoadingSelectors) THEN <<>>
  ELSE <<IF p.loading[k] > 0
         THEN <<[type |-> "loading_stuck", selector |-> LoadingSelectors[k],
                 count |-> p.loading[k]]>>
         ELSE <<>> >>
       \o LoadingAnomalies(p, k + 1)

\* for (let i = 0; i < tables.length; i++): tables[i].$$eval('tr', ...) and
\* if (rowCount <= 1) push
RECURSIVE TableAnomalies(_, _)
TableAnomalies(p, k) ==
  IF k > Len(p.tables) THEN <<>>
  ELSE <<IF p.tables[k] <= 1 THEN <<[type |-> "empty_table", index |-> k - 1]>> ELSE <<>> >>
       \o TableAnomalies(p, k + 1)

\* TooSmall without the test that the bounding box exists
TooSmallOrMissing(b) == b.width < 10 \/ b.height < 10

\* if (boundingBox && (boundingBox.width < 10 || boundingBox.height < 10))
TooSmall(b) == b.present /\ (b.width < 10 \/ b.height < 10)

\* for (let i = 0; i < charts.length; i++): charts[i].boundingBox() and push
RECURSIVE ChartsOfSelector(_, _, _)
ChartsOfSelector(p, k, j) ==
  IF j > Len(p.charts[k]) THEN <<>>
  ELSE <<IF TooSmall(p.charts[k][j])
         THEN <<[type |-> "chart_too_small", selector |-> ChartSelectors[k], index |-> j - 1]>>
         ELSE <<>> >>
       \o ChartsOfSelector(p, k, j + 1)

\* for (const selector of chartSelectors): page.$$(selector), then the charts
RECURSIVE ChartAnomalies(_, _)
ChartAnomalies(p, k) ==
  IF k > Len(ChartSelectors) THEN <<>>
  ELSE <<<<>>>> \o ChartsOfSelector(p, k, 1) \o ChartAnomalies(p, k + 1)

\* the four phases of the checklist, in order; the tables begin with
\* page.$$('table')
Phase(p, n) ==
  CASE n = 1 -> ErrorAnomalies(p, 1)
    [] n = 2 -> LoadingAnomalies(p, 1)
    [] n = 3 -> <<<<>>>> \o TableAnomalies(p, 1)
    [] n = 4 -> ChartAnomalies(p, 1)

RECURSIVE PhasesUpTo(_, _)
PhasesUpTo(p, n) == IF n = 0 THEN <<>> ELSE PhasesUpTo(p, n - 1) \o Phase(p, n)

\* the anomalies pushed by the first n queries
RECURSIVE Collected(_, _)
Collected(queries, n) ==
  IF n = 0 THEN <<>> ELSE Collected(queries, n - 1) \o queries[n]

\* detectAnomalies going on with the checklist after a query has thrown
detectAnomaliesGoesOn(p) ==
  IF p.throwAt = 0 \/ p.throwAt > Len(PhasesUpTo(p, 4))
  THEN Collected(PhasesUpTo(p, 4), Len(PhasesUpTo(p, 4)))
  ELSE Collected(PhasesUpTo(p, 4), Len(PhasesUpTo(p, 4))) \o <<[type |-> "detection_error"]>>

\* detectAnomalies(page): the query number p.throwAt throws (0, or a number
\* past the last query: none does); a throwing query ends the checklist and
\* becomes a detection_error anomaly; the function itself never throws
detectAnomalies(p) ==
  LET queries == PhasesUpTo(p, 4)
  IN IF p.throwAt = 0 \/ p.throwAt > Len(queries)
     THEN Collected(queries, Len(queries))
     ELSE Collected(queries, p.throwAt - 1) \o <<[type |-> "detection_error"]>>

\* extractDashboardData(page), called at time now, once page.title() has
\* resolved: an error inside its try block is recorded in data.error
extractDashboardData(p, now) ==
  IF p.extractFails
  THEN [timestamp |-> now, metrics |-> <<>>, tables |-> <<>>, charts |-> <<>>,
        error |-> "message"]
  ELSE [timestamp |-> now,
        metrics |-> [j \in 1..p.metrics |-> [value |-> "v", label |-> "Unlabeled"]],
        tables |-> [j \in 1..Len(p.tables) |-> [index |-> j - 1, rows |-> p.tables[j]]],
        charts |-> <<[count |-> Len(p.charts[1]) + Len(p.charts[2])]>>]

\* CheckStatus with the two branches exchanged
CheckStatusInverted(anoms) == IF Len(anoms) = 0 THEN "issues_detected" ELSE "healthy"

\* the status of a check that came through: anomalies.length === 0 ? ... : ...
CheckStatus(anoms) == IF Len(anoms) = 0 THEN "healthy" ELSE "issues_detected"

\* CheckResult without the anomalyCount field
CheckResultNoCount(n, now, anoms, data) ==
  [check |-> n + 1, timestamp |-> now, status |-> CheckStatus(anoms),
   anomalies |-> anoms, data |-> data]

\* const result = { check: i + 1, timestamp, status, anomalyCount, anomalies, data }
CheckResult(n, now, anoms, data) ==
  [check |-> n + 1, timestamp |-> now, status |-> CheckStatus(anoms),
   anomalyCount |-> Len(anoms), anomalies |-> anoms, data |-> data]

\* ErrorResult numbering the checks from 0
ErrorResultFromZero(n, now) ==
  [check |-> n, timestamp |-> now, status |-> "error", error |-> "message"]

\* the entry pushed by the catch block of the loop body
ErrorResult(n, now) ==
  [check |-> n + 1, timestamp |-> now, status |-> "error", error |-> "message"]

\* how far the clock may move while a navigation or an interval wait is awaited
Ticks == {0, 1}


-----------------------------------------------------------------------------
(* The inputs.                                                             *)

SeqsUpTo(S, n) == UNION {[1..k -> S] : k \in 0..n}

\* the arguments tried on each script
Alphabet(s) ==
  CASE s = "monitor_dashboard" -> {"--url", "--checks", "--help", "u", "2"}
    [] s = "check_gtm" -> {"--url", "--help", "u"}
    [] s = "extract_data" -> {"--url", "--selector", "--help", "u"}
    [] s = "excel_advanced" ->
         {"--action", "--input", "--output", "--file2", "--help", "compare", "analyze", "f"}
    [] s = "pptx_advanced" ->
         {"--action", "--input", "--help", "from-json", "title-slide", "f"}
    [] s = "docx_advanced" ->
         {"--action", "--input", "--help", "from-json", "report", "f"}
    [] OTHER -> {"--help", "a"}

Argvs(s) == SeqsUpTo(Alphabet(s), MaxArgs)

\* monitor_dashboard runs with a URL and every number of checks up to MaxChecks
MonitorArgvs ==
  {<<"--url", "u">>} \cup {<<"--url", "u", "--checks", ToString(k)>> : k \in 0..MaxChecks}

\* result before the function has been applied; <<value>> once it returned
NotCalled == <<>>

\* no function is applied on its own
NoCall == call = "none" /\ input = Null /\ result = NotCalled

\* the pagination loop of scraper_template is not followed step by step
NoPagination ==
  /\ site = <<>> /\ currentPage = 1 /\ nextButton = FALSE /\ navigations = 0
  /\ ppc = "off"

InitRun(s, args) ==
  /\ script = s
  /\ argv = args
  /\ config = DefaultConfig(ScriptDef(s).out)
  /\ pc = "parse"
  /\ ip = 1
  /\ exitCode = Running
  /\ browser = "none"
  /\ stderr = FALSE
  /\ usage = FALSE
  /\ io = 0
  /\ writes = 0
  /\ output = <<>>
  /\ results = <<>>
  /\ i = 0
  /\ cpc = "head"
  /\ anomalies = <<>>
  /\ page = CleanPage
  /\ clock = 0
  /\ caught = FALSE
  /\ pending = FALSE
  /\ failed = FALSE
  /\ NoCall
  /\ NoPagination

Init == \E s \in Scripts : \E args \in Argvs(s) : InitRun(s, args)

InitMonitor == \E args \in MonitorArgvs : InitRun("monitor_dashboard", args)

-----------------------------------------------------------------------------
(* The run of a script.                                                    *)

idVars == <<script, argv, config>>
loopVars == <<results, i, cpc, anomalies, page, clock>>

Def == ScriptDef(script)
Prog == Program(script, config, argv)
AtStep(k) == pc = "run" /\ exitCode = Running /\ ip <= Len(Prog) /\ Prog[ip].k = k

\* process.exit(code): the process ends at once, no finally block runs
ProcessExit(code) == pc' = "exited" /\ exitCode' = code

\* an exception leaves the current step: to the catch block when the step is
\* inside the try block, else out of the async function, where nothing
\* handles the rejection and node ends the process with status 1
Raise ==
  IF ip >= Def.tryFrom
  THEN pc' = "catch" /\ UNCHANGED <<exitCode, stderr, pending>>
  ELSE ProcessExit(1) /\ stderr' = TRUE /\ pending' = TRUE

\* the code from the start of the script to the call of its main function
DoParseArgs ==
  /\ pc = "parse" /\ exitCode = Running
  /\ LET r == ParseArgs(script, argv)
     IN /\ config' = r.cfg
        /\ usage' = r.usage
        /\ stderr' = (r.exit = 1)
        /\ IF r.exit = Running
           THEN pc' = "run" /\ exitCode' = Running
           ELSE ProcessExit(r.exit)
  /\ UNCHANGED <<script, argv, ip, browser, io, writes, output, caught, pending, failed>>
  /\ UNCHANGED loopVars /\ UNCHANGED callVars /\ UNCHANGED pageVars

ReadFile ==
  /\ AtStep("read")
  /\ io' = io + 1
  /\ \/ Truthy(Prog[ip].path) /\ ip' = ip + 1 /\ UNCHANGED <<pc, exitCode, stderr, pending>>
     \/ Raise /\ UNCHANGED ip
  /\ UNCHANGED <<browser, usage, writes, output, caught, failed>>
  /\ UNCHANGED idVars /\ UNCHANGED callVars /\ UNCHANGED pageVars /\ UNCHANGED loopVars

LaunchBrowser ==
  /\ AtStep("launch")
  /\ io' = io + 1
  /\ \/ browser' = "open" /\ ip' = ip + 1 /\ UNCHANGED <<pc, exitCode, stderr, pending>>
     \/ Raise /\ UNCHANGED <<ip, browser>>
  /\ UNCHANGED <<usage, writes, output, caught, failed>>
  /\ UNCHANGED idVars /\ UNCHANGED callVars /\ UNCHANGED pageVars /\ UNCHANGED loopVars

AwaitOp ==
  /\ AtStep("op")
  /\ \/ ip' = ip + 1 /\ UNCHANGED <<pc, exitCode, stderr, pending>>
     \/ Raise /\ UNCHANGED ip
  /\ UNCHANGED <<browser, usage, io, writes, output, caught, failed>>
  /\ UNCHANGED idVars /\ UNCHANGED callVars /\ UNCHANGED pageVars /\ UNCHANGED loopVars

\* what the script serializes into its output file
Serialized == IF script = "monitor_dashboard" THEN results ELSE output

WriteOutput ==
  /\ AtStep("write")
  /\ io' = io + 1
  /\ \/ /\ Truthy(Prog[ip].path)
        /\ writes' = writes + 1 /\ output' = Serialized /\ ip' = ip + 1
        /\ UNCHANGED <<pc, exitCode, stderr, pending>>
     \/ Raise /\ UNCHANGED <<ip, writes, output>>
  /\ UNCHANGED <<browser, usage, caught, failed>>
  /\ UNCHANGED idVars /\ UNCHANGED callVars /\ UNCHANGED pageVars /\ UNCHANGED loopVars

\* test_page: if (config.output_path) fs.writeFileSync(...)
WriteOptional ==
  /\ AtStep("write_opt")
  /\ \/ ip' = ip + 1 /\ UNCHANGED <<io, writes, pc, exitCode, stderr, pending>>
     \/ /\ io' = io + 1 /\ writes' = writes + 1 /\ ip' = ip + 1
        /\ UNCHANGED <<pc, exitCode, stderr, pending>>
     \/ io' = io + 1 /\ Raise /\ UNCHANGED <<ip, writes>>
  /\ UNCHANGED <<browser, usage, output, caught, failed>>
  /\ UNCHANGED idVars /\ UNCHANGED callVars /\ UNCHANGED pageVars /\ UNCHANGED loopVars

\* the tests run one after the other, each failure caught and counted
RunTests ==
  /\ AtStep("tests")
  /\ \/ /\ \E f \in BOOLEAN : failed' = f
        /\ ip' = ip + 1 /\ UNCHANGED <<pc, exitCode, stderr, pending>>
     \/ Raise /\ UNCHANGED <<ip, failed>>
  /\ UNCHANGED <<browser, usage, io, writes, output, caught>>
  /\ UNCHANGED idVars /\ UNCHANGED callVars /\ UNCHANGED pageVars /\ UNCHANGED loopVars

ExitIfFailed ==
  /\ AtStep("exit_if_failed")
  /\ IF failed THEN ProcessExit(1) /\ UNCHANGED ip
     ELSE ip' = ip + 1 /\ UNCHANGED <<pc, exitCode>>
  /\ UNCHANGED <<browser, stderr, usage, io, writes, output, caught, pending, failed>>
  /\ UNCHANGED idVars /\ UNCHANGED callVars /\ UNCHANGED pageVars /\ UNCHANGED loopVars

ErrorReturn ==
  /\ AtStep("error_return")
  /\ stderr' = TRUE
  /\ ip' = Len(Prog) + 1
  /\ UNCHANGED <<pc, exitCode, browser, usage, io, writes, output, caught, pending, failed>>
  /\ UNCHANGED idVars /\ UNCHANGED callVars /\ UNCHANGED pageVars /\ UNCHANGED loopVars

ErrorExit ==
  /\ AtStep("error_exit")
  /\ stderr' = TRUE
  /\ ProcessExit(1)
  /\ UNCHANGED <<ip, browser, usage, io, writes, output, caught, pending, failed>>
  /\ UNCHANGED idVars /\ UNCHANGED callVars /\ UNCHANGED pageVars /\ UNCHANGED loopVars

\* the try block has run to its end
EndTry ==
  /\ pc = "run" /\ exitCode = Running /\ ip > Len(Prog)
  /\ pc' = IF Def.finallyKind = "none" THEN "after" ELSE "finally"
  /\ UNCHANGED <<ip, exitCode, browser, stderr, usage, io, writes, output, caught,
                 pending, failed>>
  /\ UNCHANGED idVars /\ UNCHANGED callVars /\ UNCHANGED pageVars /\ UNCHANGED loopVars

\* fill_form: if (browser) { page = (await browser.pages())[0];
\*                           if (page && screenshotPath) await page.screenshot(...) }
ErrorShotWanted == browser = "open" /\ Truthy(ArgAt(argv, 2))

\* the outermost catch block
Catch ==
  /\ pc = "catch" /\ exitCode = Running
  /\ caught' = TRUE
  /\ stderr' = TRUE
  /\ CASE Def.catchKind = "exit" ->
            ProcessExit(1) /\ UNCHANGED <<io, pending>>
       [] Def.catchKind = "log" ->
            pc' = "finally" /\ UNCHANGED <<exitCode, io, pending>>
       [] Def.catchKind = "shot_exit" ->
            IF ErrorShotWanted
            THEN /\ io' = io + 1
                 /\ \/ ProcessExit(1) /\ UNCHANGED pending
                    \/ pc' = "finally" /\ pending' = TRUE /\ UNCHANGED exitCode
            ELSE ProcessExit(1) /\ UNCHANGED <<io, pending>>
       [] Def.catchKind = "shot_log" ->
            /\ io' = io + 1
            /\ pc' = "finally"
            /\ \E thrown \in BOOLEAN : pending' = thrown
            /\ UNCHANGED exitCode
  /\ UNCHANGED <<ip, browser, usage, writes, output, failed>>
  /\ UNCHANGED idVars /\ UNCHANGED callVars /\ UNCHANGED pageVars /\ UNCHANGED loopVars

\* the finally block
Finally ==
  /\ pc = "finally" /\ exitCode = Running
  /\ browser' = IF browser = "open" THEN "closed" ELSE browser
  /\ pc' = "after"
  /\ UNCHANGED <<ip, exitCode, stderr, usage, io, writes, output, caught, pending, failed>>
  /\ UNCHANGED idVars /\ UNCHANGED callVars /\ UNCHANGED pageVars /\ UNCHANGED loopVars

\* the main function has returned: a rejection nobody handles ends the
\* process with status 1; testing_template exits 1 if a test failed;
\* otherwise the process ends with status 0 once nothing is left to run
Return ==
  /\ pc = "after" /\ exitCode = Running
  /\ IF pending THEN ProcessExit(1)
     ELSE IF Def.afterKind = "exit_if_failed" /\ failed THEN ProcessExit(1)
     ELSE ProcessExit(0)
  /\ UNCHANGED <<ip, browser, stderr, usage, io, writes, output, caught, pending, failed>>
  /\ UNCHANGED idVars /\ UNCHANGED callVars /\ UNCHANGED pageVars /\ UNCHANGED loopVars

\* the process is interrupted from outside (no script installs a handler)
Interrupt ==
  /\ exitCode = Running /\ pc # "parse"
  /\ ProcessExit(SigInt)
  /\ UNCHANGED <<ip, browser, stderr, usage, io, writes, output, caught, pending, failed>>
  /\ UNCHANGED idVars /\ UNCHANGED callVars /\ UNCHANGED pageVars /\ UNCHANGED loopVars


-----------------------------------------------------------------------------
(* monitor_dashboard.js: the check loop.                                   *)

AtCheck(c) == AtStep("checks") /\ cpc = c

\* Push putting the entry in front (results.unshift)
Unshift(list, entry) == <<entry>> \o list

\* results.push(entry)
Push(list, entry) == Append(list, entry)

\* the catch block of the loop body: the error is logged, an error entry is
\* pushed and the for loop goes on with i++
CatchCheck(now) ==
  /\ stderr' = TRUE
  /\ results' = Push(results, ErrorResult(i, now))
  /\ i' = i + 1
  /\ cpc' = "head"

\* for (let i = 0; i < config.checkCount; i++)
LoopHead ==
  /\ AtCheck("head")
  /\ IF i < config.checkCount
     THEN cpc' = "goto" /\ UNCHANGED ip
     ELSE ip' = ip + 1 /\ UNCHANGED cpc
  /\ UNCHANGED <<pc, exitCode, browser, stderr, usage, io, writes, output, caught,
                 pending, failed, results, i, anomalies, page, clock>>
  /\ UNCHANGED idVars /\ UNCHANGED callVars /\ UNCHANGED pageVars

\* await page.goto(config.url, ...)
Goto ==
  /\ AtCheck("goto")
  /\ \E d \in Ticks : clock' = clock + d
  /\ \/ /\ \E p \in Pages : page' = p
        /\ cpc' = "settle"
        /\ UNCHANGED <<stderr, results, i>>
     \/ CatchCheck(clock') /\ UNCHANGED page
  /\ UNCHANGED <<pc, ip, exitCode, browser, usage, io, writes, output, caught,
                 pending, failed, anomalies>>
  /\ UNCHANGED idVars /\ UNCHANGED callVars /\ UNCHANGED pageVars

\* await page.waitForTimeout(3000)
Settle ==
  /\ AtCheck("settle")
  /\ \/ cpc' = "detect" /\ UNCHANGED <<stderr, results, i>>
     \/ CatchCheck(clock)
  /\ UNCHANGED <<pc, ip, exitCode, browser, usage, io, writes, output, caught,
                 pending, failed, anomalies, page, clock>>
  /\ UNCHANGED idVars /\ UNCHANGED callVars /\ UNCHANGED pageVars

\* const anomalies = await detectAnomalies(page)
Detect ==
  /\ AtCheck("detect")
  /\ anomalies' = detectAnomalies(page)
  /\ cpc' = "extract"
  /\ UNCHANGED <<pc, ip, exitCode, browser, stderr, usage, io, writes, output, caught,
                 pending, failed, results, i, page, clock>>
  /\ UNCHANGED idVars /\ UNCHANGED callVars /\ UNCHANGED pageVars

\* const dashboardData = await extractDashboardData(page); the result is
\* built and pushed; if (i < config.checkCount - 1) the interval wait follows
Extract ==
  /\ AtCheck("extract")
  /\ \/ /\ results' = Push(results,
                           CheckResult(i, clock, anomalies, extractDashboardData(page, clock)))
        /\ IF i < config.checkCount - 1
           THEN cpc' = "interval" /\ UNCHANGED i
           ELSE cpc' = "head" /\ i' = i + 1
        /\ UNCHANGED stderr
     \/ CatchCheck(clock)
  /\ UNCHANGED <<pc, ip, exitCode, browser, usage, io, writes, output, caught,
                 pending, failed, anomalies, page, clock>>
  /\ UNCHANGED idVars /\ UNCHANGED callVars /\ UNCHANGED pageVars

\* await page.waitForTimeout(config.interval * 1000), inside the try block
\* of the loop body
IntervalWait ==
  /\ AtCheck("interval")
  /\ \E d \in Ticks : clock' = clock + d
  /\ \/ cpc' = "head" /\ i' = i + 1 /\ UNCHANGED <<stderr, results>>
     \/ CatchCheck(clock')
  /\ UNCHANGED <<pc, ip, exitCode, browser, usage, io, writes, output, caught,
                 pending, failed, anomalies, page>>
  /\ UNCHANGED idVars /\ UNCHANGED callVars /\ UNCHANGED pageVars

-----------------------------------------------------------------------------

\* the steps monitor_dashboard can take
NextMonitor ==
  \/ DoParseArgs
  \/ LaunchBrowser
  \/ AwaitOp
  \/ LoopHead
  \/ Goto
  \/ Settle
  \/ Detect
  \/ Extract
  \/ IntervalWait
  \/ WriteOutput
  \/ EndTry
  \/ Catch
  \/ Finally
  \/ Return
  \/ Interrupt

Next ==
  \/ DoParseArgs
  \/ ReadFile
  \/ LaunchBrowser
  \/ AwaitOp
  \/ LoopHead
  \/ Goto
  \/ Settle
  \/ Detect
  \/ Extract
  \/ IntervalWait
  \/ RunTests
  \/ WriteOutput
  \/ WriteOptional
  \/ ExitIfFailed
  \/ ErrorReturn
  \/ ErrorExit
  \/ EndTry
  \/ Catch
  \/ Finally
  \/ Return
  \/ Interrupt

\* every script on every argument vector
Spec == Init /\ [][Next]_vars

\* monitor_dashboard on a URL and a number of checks
SpecMonitor == InitMonitor /\ [][NextMonitor]_vars

-----------------------------------------------------------------------------
(* Properties.                                                             *)

Range(f) == {f[k] : k \in DOMAIN f}
IsMonitor == script = "monitor_dashboard"
\* the process has ended by itself (not by an interrupt)
Exited == exitCode \notin {Running, SigInt}
\* the entries held in memory and the entries written
Entries == Range(results) \cup Range(output)
StatusEnum == {"healthy", "issues_detected", "error"}
SixFields == {"check", "timestamp", "status", "anomalyCount", "anomalies", "data"}
ErrorFields == {"check", "timestamp", "status", "error"}

\* C1: a monitor_dashboard run with --checks K >= 0 that saves its results
\* writes an array of exactly K entries, whatever the awaited calls of the
\* loop body did (the interval wait included).
C1_ExactlyKEntries ==
  (IsMonitor /\ writes >= 1 /\ config.checkCount >= 0) => Len(output) = config.checkCount

\* C2: when a check raises an error, an entry with that check's number and
\* status "error" is appended and the loop goes on with the next check: the
\* step neither leaves the try block, nor ends the process, nor touches the
\* output file; and the process never exits 1 after the launch unless the
\* outermost catch block was entered.
C2_Step ==
  (IsMonitor /\ Len(results') = Len(results) + 1 /\ results'[Len(results')].status = "error")
    => /\ results'[Len(results')].check = i + 1
       /\ SubSeq(results', 1, Len(results)) = results
       /\ i' = i + 1 /\ cpc' = "head"
       /\ pc' = "run" /\ exitCode' = Running /\ ~caught'
       /\ writes' = writes /\ output' = output

C2_Inv == (IsMonitor /\ exitCode = 1 /\ io > 0) => caught

C2_PerCheckErrorRecorded == [][C2_Step]_vars /\ []C2_Inv

\* C2 witness: a run that exited 0 and wrote an error entry followed by the
\* entry of the next check.
C2_Witness ==
  /\ IsMonitor /\ exitCode = 0 /\ writes = 1
  /\ \E k \in 1..(Len(output) - 1) :
       output[k].status = "error" /\ output[k + 1].check = output[k].check + 1

\* C3: every entry has a status among healthy, issues_detected and error; an
\* entry of a check that came through has anomalyCount = the number of its
\* anomalies, and is healthy exactly when that number is 0, issues_detected
\* otherwise.
C3_StatusClassification ==
  IsMonitor =>
    \A e \in Entries :
      /\ e.status \in StatusEnum
      /\ e.status # "error" =>
           /\ e.anomalyCount = Len(e.anomalies)
           /\ (e.status = "healthy") <=> (Len(e.anomalies) = 0)
           /\ (e.status = "issues_detected") <=> (Len(e.anomalies) > 0)

\* C3 witness: the written array holds a healthy entry, an entry with issues
\* detected and an error entry.
C3_Witness ==
  /\ IsMonitor /\ writes = 1
  /\ \E e \in Range(output) : e.status = "healthy"
  /\ \E e \in Range(output) : e.status = "issues_detected" /\ e.anomalyCount > 1
  /\ \E e \in Range(output) : e.status = "error"

\* C4: on normal completion and on a fatal error handled by the outermost
\* catch block, a browser that was launched has been closed when the process
\* ends (monitor_dashboard, check_gtm, extract_data, fill_form, scrape_data,
\* test_page).
C4_BrowserClosedAtExit ==
  ( /\ script \in {"monitor_dashboard", "check_gtm", "extract_data", "fill_form",
                   "scrape_data", "test_page"}
    /\ browser # "none"
    /\ exitCode = 0 \/ (exitCode = 1 /\ caught) )
    => browser = "closed"

\* C5: monitor_dashboard writes its output file at most once, and only when
\* the loop is over: nothing is written while checks are running, what is
\* written is the whole results list, and a run that ends before the save
\* step leaves no output.
C5_SingleWriteAfterLoop ==
  IsMonitor =>
    /\ writes <= 1
    /\ writes = 0 => output = <<>>
    /\ writes = 1 => /\ i >= config.checkCount
                     /\ cpc = "head"
                     /\ output = results
    /\ AtStep("checks") => writes = 0

\* C5 witness: a run ended by a fatal error after checks had completed; no
\* output exists for them.
C5_Witness ==
  /\ IsMonitor /\ exitCode = 1 /\ caught
  /\ Len(results) = 2 /\ i = 2 /\ output = <<>> /\ writes = 0

\* C6 (as claimed): every entry of the output array has the six fields of the
\* monitoring result record, the error entries included.
C6_AllSixFields ==
  IsMonitor => \A e \in Range(output) : SixFields \subseteq DOMAIN e

\* C6 (amended): every entry has check, timestamp and status; an entry whose
\* status is not "error" has exactly the six fields of the record; an entry
\* whose status is "error" has exactly check, timestamp, status and error.
C6_FieldsByStatus ==
  IsMonitor =>
    \A e \in Entries :
      /\ {"check", "timestamp", "status"} \subseteq DOMAIN e
      /\ e.status # "error" => DOMAIN e = SixFields
      /\ e.status = "error" => DOMAIN e = ErrorFields

\* C6 witness: the written array holds an error entry and an entry of a check
\* that came through.
C6_Witness ==
  /\ IsMonitor /\ writes = 1
  /\ \E e \in Range(output) : e.status = "error"
  /\ \E e \in Range(output) : e.status # "error"

\* C7: the timestamps of the entries are non-decreasing in array order.
C7_TimestampsNonDecreasing ==
  IsMonitor =>
    /\ \A k \in 1..(Len(results) - 1) : results[k].timestamp <= results[k + 1].timestamp
    /\ \A k \in 1..(Len(output) - 1) : output[k].timestamp <= output[k + 1].timestamp

\* C7 witness: a written array of three entries mixing error and non-error
\* entries, with two equal and two increasing timestamps.
C7_Witness ==
  /\ IsMonitor /\ writes = 1 /\ Len(output) = 3
  /\ output[1].timestamp = output[2].timestamp
  /\ output[2].timestamp < output[3].timestamp
  /\ {output[1].status, output[2].status, output[3].status} = {"healthy", "error"}

\* the body of the script ran to its end with no exception handled by the
\* outermost catch block, no failed test and no unhandled rejection
Completed ==
  /\ ParseArgs(script, argv).exit = Running
  /\ ip > Len(Prog) /\ ~caught /\ ~pending /\ ~failed

\* C8: a script whose outermost catch block caught an error exits with
\* status 1, and a script whose body completed without one exits with 0.
C8_ExitStatus ==
  Exited => /\ caught => exitCode = 1
            /\ Completed => exitCode = 0

\* a required argument of the script is missing from the command line
MissingRequired ==
  \/ script \in ChromeCli /\ "--url" \notin Range(argv)
  \/ script = "extract_data" /\ "--selector" \notin Range(argv)
  \/ script \in {"excel_advanced", "pptx_advanced"} /\ "--action" \notin Range(argv)
  \/ script = "pptx_advanced" /\ config.action = "from-json" /\ "--input" \notin Range(argv)
  \/ script = "excel_advanced" /\ config.action = "compare" /\ "--file2" \notin Range(argv)

\* C9: a run with a missing required argument (and no --help) ends with
\* status 1 and a message on standard error before any browser launch, file
\* read or file write.
C9_MissingArgumentExits1 ==
  (Exited /\ MissingRequired /\ "--help" \notin Range(argv))
    => exitCode = 1 /\ stderr /\ io = 0

\* C10: a run with --help anywhere among its arguments prints the usage and
\* exits with status 0.
C10_HelpExits0 ==
  (Exited /\ "--help" \in Range(argv)) => exitCode = 0 /\ usage

-----------------------------------------------------------------------------
(* Values of spreadsheet cells.  A cell value is a number, a string, null  *)
(* (an empty cell) or an object (a formula, a date, rich text).  An object *)
(* has an identity: the workbook loader builds a new object for every      *)
(* object-valued cell of every load.                                       *)

Num(n) == [t |-> "number", n |-> n, s |-> "", ref |-> <<>>]
Str(s) == [t |-> "string", n |-> 0, s |-> s, ref |-> <<>>]
NullValue == [t |-> "null", n |-> 0, s |-> "", ref |-> <<>>]
\* an object-valued cell as stored in the file: no identity yet
Obj(s) == [t |-> "object", n |-> 0, s |-> s, ref |-> <<>>]

\* a !== b negated: by value for primitives, by identity for objects
StrictEquals(a, b) ==
  /\ a.t = b.t
  /\ CASE a.t = "null" -> TRUE
       [] a.t = "object" -> a.ref = b.ref
       [] OTHER -> a.n = b.n /\ a.s = b.s

Max(a, b) == IF a >= b THEN a ELSE b
Min(a, b) == IF a <= b THEN a ELSE b
SetMax(S) == IF S = {} THEN 0 ELSE CHOOSE x \in S : \A y \in S : y <= x

\* a sheet: its name and its populated cells, cells[<<row, col>>]
Sheet(name, cells) == [name |-> name, cells |-> cells]
\* sheet.rowCount, sheet.columnCount: the last populated row and column
rowCount(sheet) == SetMax({a[1] : a \in DOMAIN sheet.cells})
columnCount(sheet) == SetMax({a[2] : a \in DOMAIN sheet.cells})
\* sheet.getCell(row, col).value
getCell(sheet, row, col) ==
  IF <<row, col>> \in DOMAIN sheet.cells THEN sheet.cells[<<row, col>>] ELSE NullValue

\* workbook.xlsx.readFile: the sheets of the file, every object-valued cell
\* a new object of this load
readFile(file, load) ==
  [k \in DOMAIN file |->
     Sheet(file[k].name,
           [a \in DOMAIN file[k].cells |->
              IF file[k].cells[a].t = "object"
              THEN [file[k].cells[a] EXCEPT !.ref = <<load, k, a>>]
              ELSE file[k].cells[a]])]

\* workbook.getWorksheet(name) is not undefined
hasWorksheet(workbook, name) == \E k \in DOMAIN workbook : workbook[k].name = name

\* workbook.getWorksheet(name): the sheet of that name, Undefined if none
getWorksheet(workbook, name) ==
  IF hasWorksheet(workbook, name)
  THEN workbook[CHOOSE k \in DOMAIN workbook : workbook[k].name = name]
  ELSE Undefined

-----------------------------------------------------------------------------
(* excel_advanced.js: getColumnLetter and compareFiles.                    *)

Letters == <<"A", "B", "C", "D", "E", "F", "G", "H", "I", "J", "K", "L", "M",
             "N", "O", "P", "Q", "R", "S", "T", "U", "V", "W", "X", "Y", "Z">>

\* the division without taking the last letter off first
NextColNumberNoCarry(colNumber, modulo) == colNumber \div 26

\* colNumber = Math.floor((colNumber - modulo) / 26)
NextColNumber(colNumber, modulo) == (colNumber - modulo) \div 26

RECURSIVE ColumnLetterLoop(_, _)
ColumnLetterLoop(colNumber, letter) ==
  IF colNumber > 0
  THEN LET modulo == (colNumber - 1) % 26
       IN ColumnLetterLoop(NextColNumber(colNumber, modulo), Letters[modulo + 1] \o letter)
  ELSE letter

getColumnLetter(colNumber) == ColumnLetterLoop(colNumber, "")

\* the rows compareFiles looks at
RowCap == 100

MaxRowUncapped(sheet1, sheet2) == Max(rowCount(sheet1), rowCount(sheet2))

\* const maxRow = Math.min(100, Math.max(sheet1.rowCount, sheet2.rowCount))
MaxRow(sheet1, sheet2) == Min(RowCap, Max(rowCount(sheet1), rowCount(sheet2)))

MaxCol(sheet1, sheet2) == Max(columnCount(sheet1), columnCount(sheet2))

\* the cells the two loops visit (row 1..maxRow outside, col 1..maxCol
\* inside) whose values differ by !==
DifferingCells(sheet1, sheet2) ==
  {a \in (1..MaxRow(sheet1, sheet2)) \X (1..MaxCol(sheet1, sheet2)) :
     ~StrictEquals(getCell(sheet1, a[1], a[2]), getCell(sheet2, a[1], a[2]))}

\* a is visited before b
VisitedBefore(a, b) == a[1] < b[1] \/ (a[1] = b[1] /\ a[2] < b[2])

\* the entry pushed for a differing cell
CellDifference(sheet1, sheet2, a) ==
  [cell |-> getColumnLetter(a[2]) \o ToString(a[1]),
   row |-> a[1],
   file1 |-> getCell(sheet1, a[1], a[2]),
   file2 |-> getCell(sheet2, a[1], a[2])]

\* sheetDiff.cellDifferences: the entries in the order of the visits
CellDifferences(sheet1, sheet2) ==
  LET D == DifferingCells(sheet1, sheet2)
  IN [k \in 1..Cardinality(D) |->
        CellDifference(sheet1, sheet2,
          CHOOSE a \in D : Cardinality({b \in D : VisitedBefore(b, a)}) = k - 1)]

\* the entry of one sheet of workbook1 that workbook2 has too; comparisons
\* counts the executions of the inner loop body
SheetDiff(sheet1, sheet2) ==
  [name |-> sheet1.name,
   rowCount |-> [file1 |-> rowCount(sheet1), file2 |-> rowCount(sheet2)],
   columnCount |-> [file1 |-> columnCount(sheet1), file2 |-> columnCount(sheet2)],
   cellDifferences |-> CellDifferences(sheet1, sheet2),
   comparisons |-> MaxRow(sheet1, sheet2) * MaxCol(sheet1, sheet2)]

RECURSIVE CommonSheets(_, _, _)
CommonSheets(workbook1, workbook2, k) ==
  IF k > Len(workbook1) THEN <<>>
  ELSE (IF hasWorksheet(workbook2, workbook1[k].name)
        THEN <<SheetDiff(workbook1[k], getWorksheet(workbook2, workbook1[k].name))>>
        ELSE <<>>)
       \o CommonSheets(workbook1, workbook2, k + 1)

\* compareFiles on the files --input and --file2 name: the differences object
compareFiles(file1, file2) ==
  LET workbook1 == readFile(file1, 1)
      workbook2 == readFile(file2, 2)
  IN [sheetCount |-> [file1 |-> Len(workbook1), file2 |-> Len(workbook2)],
      sheets |-> CommonSheets(workbook1, workbook2, 1)]

-----------------------------------------------------------------------------
(* JavaScript numbers.  A number is a binary floating-point value m * 2^e  *)
(* whose significand m has MantBits bits (53 in the language; the model    *)
(* keeps the rounding and shortens the significand).  Every operation      *)
(* rounds its exact result to the nearest such value, ties to even.        *)

\* bits of the significand
MantBits == 3
\* largest exponent distance the model searches
MaxExp == 12

RECURSIVE Pow2(_)
Pow2(k) == IF k <= 0 THEN 1 ELSE 2 * Pow2(k - 1)

Abs(x) == IF x < 0 THEN -x ELSE x
Sign(x) == IF x < 0 THEN -1 ELSE 1

\* num / den (den > 0) rounded to the nearest integer, ties to even
RoundHalfEven(num, den) ==
  LET f == num \div den
      r == num % den
  IN IF 2 * r > den \/ (2 * r = den /\ f % 2 = 1) THEN f + 1 ELSE f

\* the number nearest to the rational num / den (den > 0)
FlRound(num, den) ==
  IF num = 0 THEN [m |-> 0, e |-> 0]
  ELSE LET a == Abs(num)
           \* a / den * 2^-x lies in [2^(MantBits-1), 2^MantBits)
           Fits(x) == /\ a * Pow2(-x) >= Pow2(MantBits - 1) * den * Pow2(x)
                      /\ a * Pow2(-x) < Pow2(MantBits) * den * Pow2(x)
           x == CHOOSE y \in (-MaxExp)..MaxExp : Fits(y)
           m == RoundHalfEven(a * Pow2(-x), den * Pow2(x))
       IN IF m = Pow2(MantBits)
          THEN [m |-> Sign(num) * Pow2(MantBits - 1), e |-> x + 1]
          ELSE [m |-> Sign(num) * m, e |-> x]

\* the number of an integer literal
FlInt(n) == FlRound(n, 1)
\* a + b
FlAdd(a, b) ==
  LET lo == Min(a.e, b.e)
  IN FlRound((a.m * Pow2(a.e - lo) + b.m * Pow2(b.e - lo)) * Pow2(lo), Pow2(-lo))
\* a / n and a * n for an integer n > 0 (a length)
FlDivInt(a, n) == FlRound(a.m * Pow2(a.e), n * Pow2(-a.e))
FlMulInt(a, n) == FlRound(a.m * n * Pow2(a.e), Pow2(-a.e))
\* a === b
FlEq(a, b) == a.m * Pow2(a.e - Min(a.e, b.e)) = b.m * Pow2(b.e - Min(a.e, b.e))
\* |a - b| <= (k / 2^MantBits) * |b|, exactly
FlWithin(a, b, k) ==
  LET lo == Min(a.e, b.e)
      x == a.m * Pow2(a.e - lo)
      y == b.m * Pow2(b.e - lo)
  IN Abs(x - y) * Pow2(MantBits) <= k * Abs(y)

-----------------------------------------------------------------------------
(* excel_advanced.js: analyzeData, the statistics of the columns.          *)

\* String.fromCharCode(64 + col)
FromCharCode64(col) ==
  IF col \in 1..26 THEN Letters[col]
  ELSE IF col = 27 THEN "[" ELSE "?"

\* the values of rows 2..rowCount of a column that are neither null nor undefined
RECURSIVE ColumnData(_, _, _)
ColumnData(sheet, col, row) ==
  IF row > rowCount(sheet) THEN <<>>
  ELSE (IF getCell(sheet, row, col).t # "null" THEN <<getCell(sheet, row, col)>> ELSE <<>>)
       \o ColumnData(sheet, col, row + 1)

\* FilterNumbers keeping every value, a value that is no number as 0
RECURSIVE FilterNumbersKeepAll(_)
FilterNumbersKeepAll(columnData) ==
  IF columnData = <<>> THEN <<>>
  ELSE <<Head(columnData).n>> \o FilterNumbersKeepAll(Tail(columnData))

\* columnData.filter((v) => typeof v === 'number')
RECURSIVE FilterNumbers(_)
FilterNumbers(columnData) ==
  IF columnData = <<>> THEN <<>>
  ELSE (IF Head(columnData).t = "number" THEN <<Head(columnData).n>> ELSE <<>>)
       \o FilterNumbers(Tail(columnData))

\* numbers.reduce((a, b) => a + b, 0)
RECURSIVE ReduceSum(_, _)
ReduceSum(numbers, acc) ==
  IF numbers = <<>> THEN acc
  ELSE ReduceSum(Tail(numbers), FlAdd(acc, FlInt(Head(numbers))))

\* new Set(columnData).size: primitives by value, objects by identity
SetSize(columnData) == Cardinality({columnData[k] : k \in DOMAIN columnData})

\* colStats with avg taken as the sum: the division by numbers.length forgotten
ColStatsNoDivision(sheet, col) ==
  LET columnData == ColumnData(sheet, col, 2)
      numbers == FilterNumbers(columnData)
      values == {numbers[k] : k \in DOMAIN numbers}
  IN [column |-> FromCharCode64(col),
      count |-> Len(columnData),
      type |-> columnData[1].t,
      unique |-> SetSize(columnData),
      numeric |-> columnData[1].t = "number" /\ numbers # <<>>,
      min |-> -SetMax({-x : x \in values}),
      max |-> SetMax(values),
      avg |-> ReduceSum(numbers, FlInt(0)),
      sum |-> ReduceSum(numbers, FlInt(0))]

\* colStats of a column with data; min, max, avg and sum are set only when
\* numeric holds
ColStats(sheet, col) ==
  LET columnData == ColumnData(sheet, col, 2)
      numbers == FilterNumbers(columnData)
      values == {numbers[k] : k \in DOMAIN numbers}
  IN [column |-> FromCharCode64(col),
      count |-> Len(columnData),
      type |-> columnData[1].t,
      unique |-> SetSize(columnData),
      numeric |-> columnData[1].t = "number" /\ numbers # <<>>,
      min |-> -SetMax({-x : x \in values}),
      max |-> SetMax(values),
      avg |-> FlDivInt(ReduceSum(numbers, FlInt(0)), Max(Len(numbers), 1)),
      sum |-> ReduceSum(numbers, FlInt(0))]

\* stats.columns: one colStats per column that has data
RECURSIVE StatsColumns(_, _)
StatsColumns(sheet, col) ==
  IF col > columnCount(sheet) THEN <<>>
  ELSE (IF ColumnData(sheet, col, 2) # <<>> THEN <<ColStats(sheet, col)>> ELSE <<>>)
       \o StatsColumns(sheet, col + 1)

\* analyzeData on the first sheet of the file --input names
analyzeData(file) ==
  LET sheet == readFile(file, 1)[1]
  IN [sheetName |-> sheet.name,
      rowCount |-> rowCount(sheet),
      columnCount |-> columnCount(sheet),
      columns |-> StatsColumns(sheet, 1)]

-----------------------------------------------------------------------------
(* excel_advanced.js: addAutofilter.                                       *)

\* the range computed with the column letter of analyzeData
AutofilterRangeCharCode(sheet, range) ==
  IF Truthy(range) THEN range
  ELSE "A1:" \o FromCharCode64(columnCount(sheet)) \o ToString(rowCount(sheet))

\* const range = config.params.range || `A1:${getColumnLetter(...)}${sheet.rowCount}`
AutofilterRange(sheet, range) ==
  IF Truthy(range) THEN range
  ELSE "A1:" \o getColumnLetter(columnCount(sheet)) \o ToString(rowCount(sheet))

\* addAutofilter on the first sheet of the file: sheet.autoFilter and sheet.views
addAutofilter(file, range) ==
  LET sheet == readFile(file, 1)[1]
  IN [autoFilter |-> AutofilterRange(sheet, range),
      views |-> <<[state |-> "frozen", xSplit |-> 0, ySplit |-> 1]>>,
      rowCount |-> rowCount(sheet), columnCount |-> columnCount(sheet)]

-----------------------------------------------------------------------------
(* csv_to_excel.js and excel_to_csv.js.  The cells of the model carry no   *)
(* comma, quote or line break, so a CSV text is the sequence of its lines  *)
(* and a line the sequence of its cells: split and join are structural.    *)

\* cell.trim()
Trim(cell) ==
  IF cell = " a" THEN "a" ELSE cell

\* isNaN(cell): Number(cell) is NaN
IsNaN(cell) == cell \in {"a", " a"}

\* parseFloat(cell): the longest numeric prefix
ParseFloat(cell) ==
  CASE cell = "5" -> 5
    [] cell = "05" -> 5
    [] cell = "0x10" -> 0
    [] OTHER -> NaN

\* line.trim() is not empty (a comma is no white space)
NonBlank(line) == Len(line) # 1 \/ Trim(line[1]) # ""

\* csvContent.split('\n').filter(line => line.trim())
RECURSIVE FilterLines(_)
FilterLines(lines) ==
  IF lines = <<>> THEN <<>>
  ELSE (IF NonBlank(Head(lines)) THEN <<Head(lines)>> ELSE <<>>) \o FilterLines(Tail(lines))

\* the value written to the cell: the trimmed text, or its number
CsvCellValue(cell) ==
  IF ~IsNaN(Trim(cell)) /\ Trim(cell) # "" THEN Num(ParseFloat(Trim(cell)))
  ELSE Str(Trim(cell))

\* csvToExcel: the file with the one sheet 'Sheet1'
csvToExcel(csvContent) ==
  LET rows == FilterLines(csvContent)
      width == SetMax({Len(rows[r]) : r \in DOMAIN rows})
      addresses == {<<r, c>> \in (1..Len(rows)) \X (1..width) : c <= Len(rows[r])}
  IN <<Sheet("Sheet1", [a \in addresses |-> CsvCellValue(rows[a[1]][a[2]])])>>

\* String(value)
ValueToString(value) ==
  CASE value.t = "number" -> ToString(value.n)
    [] value.t = "null" -> ""
    [] OTHER -> value.s

\* row.eachCell({ includeEmpty: true }, ...): the cells up to the last one of the row
CsvRow(sheet, row) ==
  LET last == SetMax({a[2] : a \in {b \in DOMAIN sheet.cells : b[1] = row}})
  IN [c \in 1..last |-> ValueToString(getCell(sheet, row, c))]

\* sheet.eachRow({ includeEmpty: false }, ...): the rows that have cells
RECURSIVE CsvLines(_, _)
CsvLines(sheet, row) ==
  IF row > rowCount(sheet) THEN <<>>
  ELSE (IF \E a \in DOMAIN sheet.cells : a[1] = row THEN <<CsvRow(sheet, row)>> ELSE <<>>)
       \o CsvLines(sheet, row + 1)

\* excelToCSV of the first sheet: the lines written to the CSV file
excelToCSV(file) == CsvLines(readFile(file, 1)[1], 1)

-----------------------------------------------------------------------------
(* check_gtm.js: the report.                                               *)

\* what page.evaluate returns for a window: win.gtm (window.google_tag_manager
\* is set), win.dataLayer (-1: no window.dataLayer, else its length),
\* win.gtag, win.scripts (the kinds of script elements of the document)
GtmInfo(win) ==
  [gtmPresent |-> win.gtm \/ "gtm_src" \in win.scripts,
   dataLayer |-> win.dataLayer >= 0,
   dataLayerLength |-> IF win.dataLayer >= 0 THEN win.dataLayer ELSE 0,
   ga4Present |-> win.gtag,
   ga4MeasurementIds |-> IF "ga4_id" \in win.scripts THEN <<"G-1">> ELSE <<>>,
   universalAnalyticsPresent |-> "ua_id" \in win.scripts,
   uaPropertyIds |-> IF "ua_id" \in win.scripts THEN <<"UA-1-1">> ELSE <<>>]

UaMessage ==
  "Universal Analytics detected. Consider migrating to GA4 as UA is deprecated."

Advisory(type, message) == [type |-> type, message |-> message]
If(cond, entry) == IF cond THEN <<entry>> ELSE <<>>

\* the recommendations with the third condition joined by || instead of &&
RecommendationsEitherMissing(gtmInfo, requests) ==
  If(~gtmInfo.gtmPresent, Advisory("warning", "Google Tag Manager not detected on this page"))
  \o If(~gtmInfo.dataLayer \/ gtmInfo.dataLayerLength = 0,
        Advisory("warning", "Data Layer is empty or not found"))
  \o If(~gtmInfo.ga4Present \/ ~gtmInfo.universalAnalyticsPresent,
        Advisory("warning", "No Google Analytics implementation detected"))
  \o If(gtmInfo.universalAnalyticsPresent, Advisory("info", UaMessage))
  \o If(requests = 0, Advisory("error", "No analytics network requests detected"))

\* report.recommendations: the five if statements in their order
Recommendations(gtmInfo, requests) ==
  If(~gtmInfo.gtmPresent, Advisory("warning", "Google Tag Manager not detected on this page"))
  \o If(~gtmInfo.dataLayer \/ gtmInfo.dataLayerLength = 0,
        Advisory("warning", "Data Layer is empty or not found"))
  \o If(~gtmInfo.ga4Present /\ ~gtmInfo.universalAnalyticsPresent,
        Advisory("warning", "No Google Analytics implementation detected"))
  \o If(gtmInfo.universalAnalyticsPresent, Advisory("info", UaMessage))
  \o If(requests = 0, Advisory("error", "No analytics network requests detected"))

\* the report of checkGTM for a window and a number of captured requests
GtmReport(win, requests) ==
  [gtm |-> GtmInfo(win),
   networkRequests |-> [total |-> requests],
   recommendations |-> Recommendations(GtmInfo(win), requests)]

-----------------------------------------------------------------------------
(* pptx_advanced.js: createFromJSON.  Lengths are in tenths of an inch,    *)
(* '90%' is a string.                                                      *)

Undef == [t |-> "undefined", n |-> 0, s |-> "", ref |-> <<>>]

\* the value is truthy: a number other than 0, a string other than ''
JsTruthy(value) ==
  CASE value.t = "number" -> value.n # 0
    [] value.t = "string" -> value.s # ""
    [] value.t = "object" -> TRUE
    [] OTHER -> FALSE

\* value || default
OrDefault(value, default) == IF JsTruthy(value) THEN value ELSE default

\* the calls createFromJSON makes on the slide for one element
ElementCalls(element) ==
  CASE element.type = "text" ->
         <<[method |-> "addText",
            opts |-> [x |-> OrDefault(element.x, Num(5)), y |-> OrDefault(element.y, Num(5)),
                      w |-> OrDefault(element.w, Str("90%")), h |-> OrDefault(element.h, Num(10))]]>>
    [] element.type = "title" ->
         <<[method |-> "addText", opts |-> [x |-> Num(5), y |-> Num(5), w |-> Str("90%")]]>>
    [] element.type = "bullet" ->
         <<[method |-> "addText",
            opts |-> [x |-> OrDefault(element.x, Num(5)), y |-> OrDefault(element.y, Num(15)),
                      w |-> OrDefault(element.w, Str("90%"))]]>>
    [] element.type = "image" ->
         IF element.content
         THEN <<[method |-> "addImage",
                 opts |-> [x |-> OrDefault(element.x, Num(5)), y |-> OrDefault(element.y, Num(15)),
                           w |-> OrDefault(element.w, Num(40)), h |-> OrDefault(element.h, Num(30))]]>>
         ELSE <<>>
    [] element.type = "chart" ->
         IF element.content
         THEN <<[method |-> "addChart",
                 opts |-> [x |-> OrDefault(element.x, Num(5)), y |-> OrDefault(element.y, Num(15)),
                           w |-> OrDefault(element.w, Num(60)), h |-> OrDefault(element.h, Num(40))]]>>
         ELSE <<>>
    [] element.type = "table" ->
         IF element.content
         THEN <<[method |-> "addTable",
                 opts |-> [x |-> OrDefault(element.x, Num(5)), y |-> OrDefault(element.y, Num(15)),
                           w |-> OrDefault(element.w, Str("90%")), h |-> OrDefault(element.h, Num(30))]]>>
         ELSE <<>>
    [] OTHER -> <<>>

-----------------------------------------------------------------------------
(* The functions applied on their own: the inputs.                         *)

\* no script is running
NoRun ==
  /\ script = "none" /\ argv = <<>> /\ config = DefaultConfig(Null)
  /\ pc = "off" /\ ip = 1 /\ exitCode = Running /\ browser = "none"
  /\ stderr = FALSE /\ usage = FALSE /\ io = 0 /\ writes = 0 /\ output = <<>>
  /\ results = <<>> /\ i = 0 /\ cpc = "head" /\ anomalies = <<>> /\ page = CleanPage
  /\ clock = 0 /\ caught = FALSE /\ pending = FALSE /\ failed = FALSE

\* most populated cells of a workbook file
MaxCells == 2
\* most data rows of an analysed column
MaxDataRows == 3

\* the cells of the files: first and second row, the last row compareFiles
\* looks at and the one after it; columns A, B and AA
Addresses == {<<1, 1>>, <<2, 27>>, <<100, 2>>, <<101, 1>>}
\* what a cell of a file holds: a number, a string, a formula
FileValues == {Num(1), Str("a"), Obj("=A1")}

\* a file with one sheet
OneSheet(name, cells) == <<Sheet(name, cells)>>

\* the files with one sheet 'S' of at most MaxCells cells
Files ==
  {OneSheet("S", cells) :
     cells \in UNION {[A -> FileValues] :
                        A \in {B \in SUBSET Addresses : Cardinality(B) <= MaxCells}}}

\* the content of the file at an address of its first sheet
FileCell(file, a) ==
  IF a \in DOMAIN file[1].cells THEN file[1].cells[a] ELSE NullValue

\* the cells of the file with the cell at address a set to value
WithCell(file, a, value) ==
  LET cells == file[1].cells
      A == IF value = NullValue THEN DOMAIN cells \ {a} ELSE DOMAIN cells \cup {a}
  IN OneSheet(file[1].name, [b \in A |-> IF b = a THEN value ELSE cells[b]])

\* the copies of the file that differ from it in exactly one cell
OneCellChanged(file) ==
  {WithCell(file, a, value) :
     <<a, value>> \in {<<b, w>> \in Addresses \X (FileValues \cup {NullValue}) :
                         w # FileCell(file, b)}}

\* the addresses where two files with one sheet differ
ChangedCells(file1, file2) ==
  {a \in Addresses : FileCell(file1, a) # FileCell(file2, a)}

\* --input and --file2 of a comparison: the same file, a copy with one cell
\* changed, a file whose sheet has another name
CompareInputs ==
  UNION {{[file1 |-> f, file2 |-> g] :
            g \in {f, OneSheet("T", f[1].cells)} \cup OneCellChanged(f)} : f \in Files}

\* a sheet with a header and a column of at most MaxDataRows data cells
ColumnFiles ==
  {OneSheet("S", [a \in {<<1, 1>>} \cup {<<r + 1, 1>> : r \in {q \in DOMAIN col : col[q] # NullValue}}
                    |-> IF a[1] = 1 THEN Str("h") ELSE col[a[1] - 1]]) :
     col \in UNION {[1..n -> {NullValue, Num(-1), Num(1), Num(3), Str("x")}] : n \in 0..MaxDataRows}}

AnalyzeInputs == {[file |-> f] : f \in ColumnFiles}

\* --range: not given, empty, given
AutofilterInputs == {[file |-> f, range |-> r] : f \in Files, r \in {Undefined, "", "B2:C5"}}

\* the windows and the numbers of captured analytics requests
GtmInputs ==
  {[win |-> [gtm |-> g, dataLayer |-> d, gtag |-> a, scripts |-> s], requests |-> n] :
     g \in BOOLEAN, d \in -1..2, a \in BOOLEAN,
     s \in SUBSET {"ga4_id", "ua_id", "gtm_src"}, n \in 0..2}

\* an element of a slide: its type, whether it has its path / data / rows,
\* and x, y, w, h absent, 0 or 2 inches
Lengths == {Undef, Num(0), Num(20)}
PptxInputs ==
  {[type |-> ty, content |-> c, x |-> x, y |-> y, w |-> w, h |-> h] :
     ty \in {"text", "title", "bullet", "image", "chart", "table", "shape"},
     c \in BOOLEAN, x \in Lengths, y \in Lengths, w \in Lengths, h \in Lengths}

InitCall(name, inputs) ==
  /\ NoRun /\ NoPagination
  /\ call = name /\ input \in inputs /\ result = NotCalled

InitLib ==
  \/ InitCall("compareFiles", CompareInputs)
  \/ InitCall("analyzeData", AnalyzeInputs)
  \/ InitCall("addAutofilter", AutofilterInputs)
  \/ InitCall("checkGTM", GtmInputs)
  \/ InitCall("createFromJSON", PptxInputs)

-----------------------------------------------------------------------------
(* The functions applied on their own: the calls.                          *)

Called(name) == call = name /\ result # NotCalled
\* what the function returned
Returned == result[1]

Apply(name, value) ==
  /\ call = name /\ result = NotCalled
  /\ result' = <<value>>
  /\ UNCHANGED <<call, input>> /\ UNCHANGED runVars /\ UNCHANGED pageVars

CallCompareFiles == Apply("compareFiles", compareFiles(input.file1, input.file2))
CallAnalyzeData == Apply("analyzeData", analyzeData(input.file))
CallAddAutofilter == Apply("addAutofilter", addAutofilter(input.file, input.range))
CallCheckGTM == Apply("checkGTM", GtmReport(input.win, input.requests))
CallCreateFromJSON == Apply("createFromJSON", ElementCalls(input))

NextLib ==
  \/ CallCompareFiles
  \/ CallAnalyzeData
  \/ CallAddAutofilter
  \/ CallCheckGTM
  \/ CallCreateFromJSON

\* every function on every input
SpecLib == InitLib /\ [][NextLib]_vars

-----------------------------------------------------------------------------
(* Properties of the spreadsheet functions.                                *)

\* the name of column n in a spreadsheet, for names of at most two letters
ColumnName(n) ==
  IF n = 0 THEN ""
  ELSE IF n <= 26 THEN Letters[n]
  ELSE Letters[(n - 1) \div 26] \o Letters[((n - 1) % 26) + 1]

\* C11: comparing a workbook with itself reports an empty cellDifferences
\* list for every sheet, whatever the cells hold (numbers, strings, empty
\* cells, object-valued cells).
C11_SelfCompareNoDifferences ==
  (Called("compareFiles") /\ input.file1 = input.file2)
    => \A k \in DOMAIN Returned.sheets : Returned.sheets[k].cellDifferences = <<>>

\* C12: comparing a workbook with a copy that differs in exactly one cell
\* (any row and column of a sheet both have) reports exactly one difference
\* entry, whose cell field is the address of that cell.
C12_OneChangeOneDifference ==
  ( /\ Called("compareFiles")
    /\ input.file1[1].name = input.file2[1].name
    /\ Cardinality(ChangedCells(input.file1, input.file2)) = 1 )
    => LET a == CHOOSE b \in ChangedCells(input.file1, input.file2) : TRUE
       IN /\ Len(Returned.sheets) = 1
          /\ Len(Returned.sheets[1].cellDifferences) = 1
          /\ Returned.sheets[1].cellDifferences[1].cell = ColumnName(a[2]) \o ToString(a[1])

\* the data cells of the analysed column that are not empty are all numbers
AllNumbers ==
  \A a \in DOMAIN input.file[1].cells : a[1] >= 2 => input.file[1].cells[a].t = "number"

FullRange(file) ==
  "A1:" \o ColumnName(SetMax({a[2] : a \in DOMAIN file[1].cells}))
        \o ToString(SetMax({a[1] : a \in DOMAIN file[1].cells}))

\* C14 (as claimed): with or without --range, the autoFilter range is the
\* string from A1 to the last populated column and row.
C14_RangeAlwaysFull ==
  Called("addAutofilter") => Returned.autoFilter = FullRange(input.file)

\* C14 (amended): without --range (or with an empty one) the autoFilter range
\* is the string from A1 to the last populated column and row; with --range
\* it is the string given.
C14_RangeFullUnlessGiven ==
  Called("addAutofilter") =>
    Returned.autoFilter =
      (IF input.range \in {Undefined, ""} THEN FullRange(input.file) ELSE input.range)

\* C14 witness: no --range and a sheet whose last column is AA.
C14_Witness ==
  /\ Called("addAutofilter") /\ input.range = Undefined
  /\ Returned.columnCount = 27 /\ Returned.autoFilter = "A1:AA2"

\* C16: no cellDifferences entry refers to a row beyond the first 100, and
\* the cell comparisons of a sheet are at most 100 times the larger of the
\* two column counts.
C16_FirstHundredRows ==
  Called("compareFiles") =>
    \A k \in DOMAIN Returned.sheets :
      LET d == Returned.sheets[k]
      IN /\ \A e \in Range(d.cellDifferences) : e.row <= 100
         /\ d.comparisons <= 100 * Max(d.columnCount.file1, d.columnCount.file2)

\* C16 witness: the files differ at row 101 only and nothing is reported,
\* 100 rows having been compared.
C16_Witness ==
  /\ Called("compareFiles")
  /\ ChangedCells(input.file1, input.file2) = {<<101, 1>>}
  /\ Len(Returned.sheets) = 1
  /\ Returned.sheets[1].cellDifferences = <<>>
  /\ Returned.sheets[1].comparisons = 100

-----------------------------------------------------------------------------
(* Properties of the check_gtm report and of createFromJSON.               *)

\* the advisories in their order, each with the condition the claim gives
\* it, read from the gtm and networkRequests fields of the report
AdvisoryTable(report) ==
  <<[message |-> "Google Tag Manager not detected on this page",
     when |-> ~report.gtm.gtmPresent],
    [message |-> "Data Layer is empty or not found",
     when |-> ~report.gtm.dataLayer \/ report.gtm.dataLayerLength = 0],
    [message |-> "No Google Analytics implementation detected",
     when |-> ~(report.gtm.ga4Present \/ report.gtm.universalAnalyticsPresent)],
    [message |-> UaMessage,
     when |-> report.gtm.universalAnalyticsPresent],
    [message |-> "No analytics network requests detected",
     when |-> report.networkRequests.total = 0]>>

\* C17: the recommendations are exactly the advisories whose condition
\* holds, each once, in the fixed order, and nothing else.
C17_RecommendationsExact ==
  Called("checkGTM") =>
    LET table == AdvisoryTable(Returned)
        recs == Returned.recommendations
        Place(k) == CHOOSE j \in DOMAIN table : table[j].message = recs[k].message
    IN /\ \A k \in DOMAIN recs : \E j \in DOMAIN table : table[j].message = recs[k].message
       /\ \A j \in DOMAIN table :
            table[j].when <=> \E k \in DOMAIN recs : recs[k].message = table[j].message
       /\ \A k \in DOMAIN recs : \A l \in DOMAIN recs : k < l => Place(k) < Place(l)

\* C17 witness: a report with four advisories, the Universal Analytics one
\* among them.
C17_Witness ==
  /\ Called("checkGTM")
  /\ Len(Returned.recommendations) = 4
  /\ Returned.recommendations[3].type = "info"
  /\ Returned.recommendations[4].type = "error"

\* C20: every x, y, w and h an element gives reaches the presentation
\* library unchanged; only an absent field gets a default.
C20_PositionsPassedThrough ==
  Called("createFromJSON") =>
    \A k \in DOMAIN Returned :
      \A f \in {"x", "y", "w", "h"} :
        input[f] # Undef => (f \in DOMAIN Returned[k].opts /\ Returned[k].opts[f] = input[f])

-----------------------------------------------------------------------------
(* csv_to_excel.js followed by excel_to_csv.js.                            *)

\* most lines of a CSV file and most cells of a line
MaxCsvRows == 2
MaxCsvCols == 2

\* the cells: text, text after a blank, numbers in decimal with and without
\* a leading zero, a number in hexadecimal, the empty cell
CsvCells == {"a", " a", "5", "05", "0x10", ""}

CsvInputs ==
  {[csv |-> lines] :
     lines \in UNION {[1..r -> UNION {[1..c -> CsvCells] : c \in 1..MaxCsvCols}] :
                        r \in 1..MaxCsvRows}}

InitCsv == InitCall("csvToExcel", CsvInputs)

\* csv_to_excel.js <input.csv> <output.xlsx>
CallCsvToExcel == Apply("csvToExcel", csvToExcel(input.csv))

\* excel_to_csv.js <output.xlsx> <dir> on the file csv_to_excel.js wrote
CallExcelToCSV ==
  /\ Called("csvToExcel")
  /\ call' = "excelToCSV"
  /\ input' = [csv |-> input.csv, xlsx |-> Returned]
  /\ result' = <<excelToCSV(Returned)>>
  /\ UNCHANGED runVars /\ UNCHANGED pageVars

NextCsv ==
  \/ CallCsvToExcel
  \/ CallExcelToCSV

\* a CSV file converted to a workbook and back
SpecCsv == InitCsv /\ [][NextCsv]_vars

\* the number a numeric string denotes
NumberOf(cell) ==
  CASE cell = "5" -> 5
    [] cell = "05" -> 5
    [] cell = "0x10" -> 16

\* back is the cell, or the canonical text of the number the cell denotes
SameUpToNormalization(cell, back) ==
  \/ back = cell
  \/ cell \in {"5", "05", "0x10"} /\ back = ToString(NumberOf(cell))

\* C15: for cells without commas, quotes or line breaks, csvToExcel followed
\* by excelToCSV yields the same grid: as many rows, as many cells per row,
\* and per cell the original value up to numeric-string normalization.
C15_CsvRoundTrip ==
  Called("excelToCSV") =>
    /\ Len(Returned) = Len(input.csv)
    /\ \A r \in DOMAIN Returned :
         /\ Len(Returned[r]) = Len(input.csv[r])
         /\ \A c \in DOMAIN Returned[r] :
              SameUpToNormalization(input.csv[r][c], Returned[r][c])

-----------------------------------------------------------------------------
(* scraper_template.js: the pagination loop, statement by statement.       *)
(* ppc: "while" (the loop test), "query" (page.$), "click" (the click and  *)
(* the navigation), "save" (after the loop), "catch", "finally", "done".   *)

\* const maxPages = 5
maxPages == 5
\* pages of a site the model tells apart; the later pages are like the last
MaxSitePages == 5

\* site[p]: page p of the site has a '.next-page' element
Sites == [1..MaxSitePages -> BOOLEAN]

InitScraper ==
  /\ NoRun /\ NoCall
  /\ site \in Sites
  /\ currentPage = 1 /\ nextButton = FALSE /\ navigations = 0
  /\ ppc = "while"

\* the loop test with <= for <
WhileConditionInclusive == currentPage <= maxPages

\* while (currentPage < maxPages)
WhileCondition == currentPage < maxPages

Scraper(at) == ppc = at /\ UNCHANGED runVars /\ UNCHANGED callVars /\ UNCHANGED site

WhileTest ==
  /\ Scraper("while")
  /\ ppc' = IF WhileCondition THEN "query" ELSE "save"
  /\ UNCHANGED <<currentPage, nextButton, navigations>>

\* const nextButton = await page.$('.next-page'); if (!nextButton) break;
QueryNextButton ==
  /\ Scraper("query")
  /\ \/ /\ nextButton' = site[Min(currentPage, MaxSitePages)]
        /\ ppc' = IF nextButton' THEN "click" ELSE "save"
     \/ ppc' = "catch" /\ UNCHANGED nextButton
  /\ UNCHANGED <<currentPage, navigations>>

\* await Promise.all([page.waitForNavigation(...), nextButton.click()]);
\* currentPage++
ClickNext ==
  /\ Scraper("click")
  /\ navigations' = navigations + 1
  /\ \/ currentPage' = currentPage + 1 /\ ppc' = "while"
     \/ ppc' = "catch" /\ UNCHANGED currentPage
  /\ UNCHANGED nextButton

\* fs.writeFileSync('scraped_data.json', ...)
SaveScraped ==
  /\ Scraper("save")
  /\ ppc' \in {"finally", "catch"}
  /\ UNCHANGED <<currentPage, nextButton, navigations>>

\* catch (error) { console.error(...) }
CatchScraper ==
  /\ Scraper("catch")
  /\ ppc' = "finally"
  /\ UNCHANGED <<currentPage, nextButton, navigations>>

\* finally { await browser.close() }
FinallyScraper ==
  /\ Scraper("finally")
  /\ ppc' = "done"
  /\ UNCHANGED <<currentPage, nextButton, navigations>>

NextScraper ==
  \/ WhileTest
  \/ QueryNextButton
  \/ ClickNext
  \/ SaveScraped
  \/ CatchScraper
  \/ FinallyScraper

\* the pagination of scraper_template on every site; every awaited call
\* settles and the continuation runs
SpecScraper == InitScraper /\ [][NextScraper]_vars /\ WF_vars(NextScraper)

Paginating == ppc \in {"while", "query", "click"}

\* a step of the loop after which no '.next-page' element was found leaves
\* the loop; outside the loop nothing navigates
C19_Step ==
  /\ (ppc = "query" /\ ppc' # "catch" /\ nextButton' = FALSE) => ppc' = "save"
  /\ ~Paginating => navigations' = navigations /\ ~Paginating'

\* C19: the pagination loop ends on every site, after at most
\* maxPages - 1 = 4 next-page navigations, and as soon as no '.next-page'
\* element is found.
C19_PaginationTerminates ==
  /\ [](ppc # "off" => navigations <= 4 /\ currentPage <= 5)
  /\ [][C19_Step]_vars
  /\ <>(ppc = "done")

\* C19 witness: a site with a next page on every page, left after four
\* navigations.
C19_Witness == ppc = "done" /\ navigations = 4 /\ currentPage = 5 /\ nextButton = TRUE

-----------------------------------------------------------------------------
(* monitor_dashboard.js: the wait between checks.                          *)

\* a step that goes on to a further check is the end of an interval wait
C18_Step ==
  (IsMonitor /\ i' = i + 1 /\ i' < config.checkCount)
    => (cpc = "interval" /\ results' = results)

\* C18: with K > 1 every two consecutive checks are separated by the
\* interval wait, whether the earlier check came through or raised an error,
\* and no interval wait follows the last check.
C18_IntervalBetweenChecks ==
  /\ [][C18_Step]_vars
  /\ [](IsMonitor /\ cpc = "interval" => i < config.checkCount - 1)

-----------------------------------------------------------------------------
(* monitor_dashboard.js: detectAnomalies applied on its own.               *)

\* most awaited queries of detectAnomalies before the one that throws
MaxQueries == 22

\* the documents: elements per error selector, elements per loading
\* selector, rows per table, bounding boxes per chart selector
DetectPages ==
  {[errors |-> e, loading |-> l, tables |-> t, charts |-> c, metrics |-> 0,
    throwAt |-> n, extractFails |-> FALSE] :
     e \in {<<0, 0, 0, 0, 0>>, <<2, 0, 0, 1, 0>>, <<0, 1, 0, 0, 1>>},
     l \in {<<0, 0, 0>>, <<0, 2, 0>>, <<1, 0, 3>>},
     t \in {<<>>, <<3>>, <<1, 5, 0>>},
     c \in {<< <<>>, <<>>, <<>> >>,
            << <<Box(5, 300)>>, <<NoBox>>, <<Box(400, 9), Box(400, 300)>> >>,
            << <<NoBox, Box(10, 10)>>, <<Box(9, 9)>>, <<>> >>},
     n \in 0..MaxQueries}

InitDetect == InitCall("detectAnomalies", {[page |-> p] : p \in DetectPages})

\* const anomalies = await detectAnomalies(page)
CallDetectAnomalies == Apply("detectAnomalies", detectAnomalies(input.page))

NextDetect == CallDetectAnomalies

\* detectAnomalies on every document
SpecDetect == InitDetect /\ [][NextDetect]_vars

\* the sum of a sequence of numbers
RECURSIVE SumSeq(_)
SumSeq(seq) == IF seq = <<>> THEN 0 ELSE seq[1] + SumSeq(Tail(seq))

\* the awaited DOM queries of the checklist on a document: one per
\* selector, one per error element, one for the tables, one per table and
\* one per chart
QueryCount(p) ==
  5 + SumSeq(p.errors) + 3 + 1 + Len(p.tables)
    + 3 + Len(p.charts[1]) + Len(p.charts[2]) + Len(p.charts[3])

\* a DOM query of the checklist throws
Throws(p) == p.throwAt \in 1..QueryCount(p)

\* the place of a selector in a list
IndexIn(list, selector) == CHOOSE k \in DOMAIN list : list[k] = selector

\* where an anomaly belongs in the order of the checklist
Rank(a) ==
  CASE a.type = "error" -> <<1, IndexIn(ErrorSelectors, a.selector), 0>>
    [] a.type = "loading_stuck" -> <<2, IndexIn(LoadingSelectors, a.selector), 0>>
    [] a.type = "empty_table" -> <<3, 0, a.index>>
    [] a.type = "chart_too_small" -> <<4, IndexIn(ChartSelectors, a.selector), a.index>>
    [] OTHER -> <<5, 0, 0>>

\* r comes before s or is s, in lexicographic order
RankLeq(r, s) ==
  \/ r[1] < s[1]
  \/ r[1] = s[1] /\ r[2] < s[2]
  \/ r[1] = s[1] /\ r[2] = s[2] /\ r[3] <= s[3]

\* how many anomalies of a list have the given rank
CountRank(anoms, rank) == Cardinality({k \in DOMAIN anoms : Rank(anoms[k]) = rank})

\* C21: when no DOM query throws, detectAnomalies returns exactly, in the
\* order of the checklist: one 'error' per element matched by each error
\* selector, one 'loading_stuck' per loading selector with a match, one
\* 'empty_table' per table with at most one row, one 'chart_too_small' per
\* chart whose bounding box exists and is narrower or lower than 10; a chart
\* with no bounding box gives no anomaly.
C21_ChecklistExact ==
  (Called("detectAnomalies") /\ ~Throws(input.page)) =>
    LET p == input.page
        anoms == Returned
    IN /\ \A k \in DOMAIN anoms : Rank(anoms[k])[1] <= 4
       /\ \A k \in DOMAIN anoms : \A l \in DOMAIN anoms :
            k < l => RankLeq(Rank(anoms[k]), Rank(anoms[l]))
       /\ \A k \in 1..5 : CountRank(anoms, <<1, k, 0>>) = p.errors[k]
       /\ \A k \in 1..3 : CountRank(anoms, <<2, k, 0>>) = IF p.loading[k] >= 1 THEN 1 ELSE 0
       /\ \A k \in DOMAIN p.tables :
            CountRank(anoms, <<3, 0, k - 1>>) = IF p.tables[k] <= 1 THEN 1 ELSE 0
       /\ \A k \in 1..3 : \A j \in DOMAIN p.charts[k] :
            LET box == p.charts[k][j]
            IN CountRank(anoms, <<4, k, j - 1>>) =
                 IF box # NoBox /\ (box.width < 10 \/ box.height < 10) THEN 1 ELSE 0
       /\ Len(anoms) = SumSeq(p.errors)
                       + Cardinality({k \in 1..3 : p.loading[k] >= 1})
                       + Cardinality({k \in DOMAIN p.tables : p.tables[k] <= 1})
                       + Cardinality({kj \in (1..3) \X (1..2) :
                                        /\ kj[2] \in DOMAIN p.charts[kj[1]]
                                        /\ p.charts[kj[1]][kj[2]] # NoBox
                                        /\ \/ p.charts[kj[1]][kj[2]].width < 10
                                           \/ p.charts[kj[1]][kj[2]].height < 10})

\* C21 witness: a document with a chart without a bounding box, a loading
\* selector matching three elements and anomalies of all four kinds.
C21_Witness ==
  /\ Called("detectAnomalies") /\ ~Throws(input.page)
  /\ input.page.charts[1] = <<NoBox, Box(10, 10)>>
  /\ input.page.loading[3] = 3
  /\ \A n \in 1..4 : \E k \in DOMAIN Returned : Rank(Returned[k])[1] = n

-----------------------------------------------------------------------------
(* monitor_dashboard.js: a check whose anomaly detection threw.            *)

\* what detectAnomalies finds on the document when no query throws
WithoutThrow(p) == detectAnomalies([p EXCEPT !.throwAt = 0])

\* anoms is a beginning of WithoutThrow(p) followed by one detection_error;
\* on the two pages of the model with a throwing query a later query has a
\* finding, which is skipped
DetectionErrorLast(anoms, p) ==
  /\ Len(anoms) >= 1
  /\ anoms[Len(anoms)].type = "detection_error"
  /\ \A k \in 1..(Len(anoms) - 1) :
       /\ anoms[k].type # "detection_error"
       /\ k <= Len(WithoutThrow(p)) /\ anoms[k] = WithoutThrow(p)[k]
  /\ p \in {FlakyPage, CrashingPage} => Len(anoms) - 1 < Len(WithoutThrow(p))

\* the entry a step has appended to results
Appended == results'[Len(results')]

\* C22: if a DOM query inside detectAnomalies throws, the check is not
\* recorded with status 'error': whatever entry is recorded for that check
\* has status 'issues_detected'.
C22_NeverRecordedAsError ==
  [][(IsMonitor /\ cpc \in {"extract", "interval"} /\ Throws(page) /\ results' # results)
       => Appended.status = "issues_detected"]_vars

\* detectAnomalies hands the exception over as an anomaly and the check goes
\* on; the entry built from its result is not 'healthy'
C22_Step ==
  /\ (IsMonitor /\ cpc = "detect" /\ cpc' # "detect" /\ Throws(page))
       => /\ cpc' = "extract" /\ results' = results
          /\ DetectionErrorLast(anomalies', page)
  /\ (IsMonitor /\ cpc = "extract" /\ Throws(page) /\ results' # results
        /\ Appended.status # "error")
       => /\ Appended.status = "issues_detected"
          /\ Appended.anomalies = anomalies
          /\ DetectionErrorLast(Appended.anomalies, page)

\* C22 (amended): a throwing DOM query does not make detectAnomalies
\* throw; it returns the anomalies collected so far followed by a single
\* 'detection_error', the rest of the checklist skipped, and the check goes
\* on to extractDashboardData; the entry built from that result has status
\* 'issues_detected'.
C22_DetectionErrorIsAnomaly == [][C22_Step]_vars

\* C22 witness: an entry with status 'issues_detected' whose anomalies are
\* seven findings followed by the detection error.
C22_Witness ==
  /\ IsMonitor
  /\ \E k \in DOMAIN results :
       /\ results[k].status = "issues_detected"
       /\ Len(results[k].anomalies) = 8
       /\ results[k].anomalies[8].type = "detection_error"

-----------------------------------------------------------------------------
(* excel_advanced.js: analyzeData on sheets whose data is in a later       *)
(* column.                                                                 *)

\* the columns holding the data: A, Z and the first one past Z
DataColumns == {1, 26, 27}

\* the file with its only column moved to column col
MovedTo(file, col) ==
  OneSheet(file[1].name,
           [a \in {<<b[1], col>> : b \in DOMAIN file[1].cells} |-> file[1].cells[<<a[1], 1>>]])

WideInputs == {[file |-> MovedTo(f, col)] : f \in ColumnFiles, col \in DataColumns}

InitColumns == InitCall("analyzeData", WideInputs)

NextColumns == CallAnalyzeData

\* analyzeData on every sheet with one column of data
SpecColumns == InitColumns /\ [][NextColumns]_vars

\* C23: the column field of the statistics record of column index col is
\* the spreadsheet column letter of col, getColumnLetter(col), for every
\* col >= 1, col > 26 included.
C23_ColumnIsLetter ==
  Called("analyzeData") =>
    \A k \in DOMAIN Returned.columns :
      Returned.columns[k].column = getColumnLetter(columnCount(input.file[1]))

-----------------------------------------------------------------------------
(* excel_advanced.js: analyzeData on a column mixing numbers and strings.  *)

\* the addresses of the data cells of the analysed file that are not empty
DataCells == {a \in DOMAIN input.file[1].cells : a[1] >= 2}
\* the first of them
FirstDataCell == CHOOSE a \in DataCells : \A b \in DataCells : a[1] <= b[1]
\* the numbers among them
NumericCells == {a \in DataCells : input.file[1].cells[a].t = "number"}
NumericValues == {input.file[1].cells[a].n : a \in NumericCells}

\* a <= b
FlLeq(a, b) == a.m * Pow2(a.e - Min(a.e, b.e)) <= b.m * Pow2(b.e - Min(a.e, b.e))

\* count, the presence of the statistics, min and max as C24 states them
C24_CountMinMax(c) ==
  /\ c.count = Cardinality(DataCells)
  /\ c.numeric <=> input.file[1].cells[FirstDataCell].t = "number"
  /\ c.numeric =>
       /\ c.min \in NumericValues /\ \A x \in NumericValues : c.min <= x
       /\ c.max \in NumericValues /\ \A x \in NumericValues : x <= c.max

-----------------------------------------------------------------------------
(* check_gtm.js: measurement IDs and the missing-analytics advisory.       *)

\* C25: in every report whose ga4MeasurementIds is not empty the advisory
\* 'No Google Analytics implementation detected' is absent from the
\* recommendations.
C25_Ga4IdMeansAnalytics ==
  (Called("checkGTM") /\ Returned.gtm.ga4MeasurementIds # <<>>)
    => \A k \in DOMAIN Returned.recommendations :
         Returned.recommendations[k].message # "No Google Analytics implementation detected"

-----------------------------------------------------------------------------
(* test_page.js: testPage, statement by statement.  The state of the run   *)
(* is the record result[1]: at (where the run is: "setup", "for", "test",  *)
(* "save", "exit", "catch", "finally", "ended"), k (the test the loop is   *)
(* at), passed and failed (results.passed and results.failed, a test named *)
(* by its place in config.tests), caught (the outer catch block has run)   *)
(* and exitCode.                                                           *)

\* most tests of a configuration
MaxTests == 3

\* the entries of config.tests: the four known types, an unknown type, and
\* an entry that is no object (null)
TestTypes == {"element_exists", "text_contains", "click_and_verify", "custom", "other"}
TestEntries == TestTypes \cup {"null"}

TestInputs == {[tests |-> t] : t \in UNION {[1..n -> TestEntries] : n \in 0..MaxTests}}

Run == result[1]

InitTests ==
  /\ NoRun /\ NoPagination
  /\ call = "testPage" /\ input \in TestInputs
  /\ result = <<[at |-> "setup", k |-> 1, passed |-> <<>>, failed |-> <<>>,
                 caught |-> FALSE, exitCode |-> Running]>>

\* a step of testPage from `at`
TestPage(at, next) ==
  /\ call = "testPage" /\ Run.at = at
  /\ result' = <<next>>
  /\ UNCHANGED <<call, input>> /\ UNCHANGED runVars /\ UNCHANGED pageVars

\* JSON.parse(fs.readFileSync(...)), puppeteer.launch, newPage, setViewport,
\* page.goto: each may throw
SetupTests ==
  \E ok \in BOOLEAN :
    TestPage("setup", [Run EXCEPT !.at = IF ok THEN "for" ELSE "catch"])

\* for (const test of config.tests) { console.log(`Running test: ${test.name}`)
ForTest ==
  TestPage("for",
           [Run EXCEPT !.at = IF Run.k > Len(input.tests) THEN "save"
                             ELSE IF input.tests[Run.k] = "null" THEN "catch"
                             ELSE "test"])

\* what the switch statement can do with a test: push to results.passed, or
\* throw, which the catch block of the loop body turns into a push to
\* results.failed
TestOutcomes(type) ==
  IF type \in {"element_exists", "text_contains", "click_and_verify", "custom"}
  THEN {"passed", "failed"}
  ELSE {"failed"}

\* try { switch (test.type) ... } catch (error) { results.failed.push(...) }
RunTest ==
  /\ call = "testPage" /\ Run.at = "test"
  /\ \E outcome \in TestOutcomes(input.tests[Run.k]) :
    TestPage("test",
             [Run EXCEPT !.at = "for", !.k = Run.k + 1,
                         !.passed = IF outcome = "passed" THEN Append(Run.passed, Run.k)
                                    ELSE Run.passed,
                         !.failed = IF outcome = "failed" THEN Append(Run.failed, Run.k)
                                    ELSE Run.failed])

\* if (config.output_path) fs.writeFileSync(...)
SaveTestResults ==
  \E ok \in BOOLEAN :
    TestPage("save", [Run EXCEPT !.at = IF ok THEN "exit" ELSE "catch"])

\* the exit status never being 1 after the tests
ExitCodeAlwaysZero(failedTests) == Running

\* if (results.failed.length > 0) process.exit(1)
ExitCodeAfterTests(failedTests) == IF Len(failedTests) > 0 THEN 1 ELSE Running

ExitIfTestsFailed ==
  TestPage("exit",
           [Run EXCEPT !.exitCode = ExitCodeAfterTests(Run.failed),
                       !.at = IF ExitCodeAfterTests(Run.failed) = Running
                              THEN "finally" ELSE "ended"])

\* catch (error) { console.error(...); process.exit(1) }
CatchTests ==
  TestPage("catch", [Run EXCEPT !.caught = TRUE, !.exitCode = 1, !.at = "ended"])

\* finally { if (browser) await browser.close() }, and the process ends
FinallyTests ==
  TestPage("finally", [Run EXCEPT !.exitCode = 0, !.at = "ended"])

NextTests ==
  \/ SetupTests
  \/ ForTest
  \/ RunTest
  \/ SaveTestResults
  \/ ExitIfTestsFailed
  \/ CatchTests
  \/ FinallyTests

\* test_page.js on every configuration
SpecTests == InitTests /\ [][NextTests]_vars

\* the tests in a list of results
Listed(list) == {list[j] : j \in DOMAIN list}

\* every configured test is in exactly one of passed and failed, once
EveryTestOnce ==
  /\ Len(Run.passed) + Len(Run.failed) = Len(input.tests)
  /\ Listed(Run.passed) \cup Listed(Run.failed) = DOMAIN input.tests
  /\ Listed(Run.passed) \cap Listed(Run.failed) = {}

\* the process exits with status 1 exactly when a test failed or the outer
\* catch block ran
ExitOneIffFailedOrCaught ==
  Run.at = "ended" => (Run.exitCode = 1 <=> (Len(Run.failed) > 0 \/ Run.caught))

\* a test, whatever its outcome, is followed by the next one
C26_Step ==
  (call = "testPage" /\ Run.at = "test" /\ result' # result)
    => /\ result'[1].at = "for" /\ result'[1].k = Run.k + 1
       /\ result'[1].exitCode = Running
       /\ Len(result'[1].passed) + Len(result'[1].failed)
            = Len(Run.passed) + Len(Run.failed) + 1

\* C26 (as claimed): after testPage has run, every configured test is in
\* exactly one of results.passed and results.failed; a failing or unknown
\* test does not stop the later ones; the exit status is 1 exactly when a
\* test failed or a setup error was caught.
C26_AllTestsRecorded ==
  /\ [](call = "testPage" /\ Run.at = "ended" => EveryTestOnce)
  /\ [](call = "testPage" => ExitOneIffFailedOrCaught)
  /\ [][C26_Step]_vars

\* C26 (amended): the same once the loop over config.tests has come to its
\* end, which it does unless the outer catch block ran.
C26_AllTestsRecordedAfterLoop ==
  /\ [](call = "testPage" /\ Run.at \in {"save", "exit", "finally"} => EveryTestOnce)
  /\ [](call = "testPage" /\ Run.at = "ended" => (Run.caught \/ EveryTestOnce))
  /\ [](call = "testPage" => ExitOneIffFailedOrCaught)
  /\ [][C26_Step]_vars

\* C26 witness: three tests, the first failed, the second of an unknown
\* type, the third passed, and exit status 1 without the outer catch.
C26_Witness ==
  /\ call = "testPage" /\ Run.at = "ended"
  /\ Len(input.tests) = 3 /\ input.tests[2] = "other"
  /\ Run.failed = <<1, 2>> /\ Run.passed = <<3>>
  /\ Run.exitCode = 1 /\ ~Run.caught

-----------------------------------------------------------------------------
(* fill_form.js: fillForm, statement by statement.  The state of the run   *)
(* is the record result[1]: at (where the run is), k (the entry the loop   *)
(* is at), actions (the clicks and typings done on the page), launched     *)
(* (browser is set), inLoop (the error came from the loop), caught,        *)
(* errorShot (the catch block went for the error screenshot), pending (an  *)
(* exception left the catch block) and exitCode.                           *)

\* most members of "selectors" as form_data.json lists them
MaxSelectors == 3

\* the keys: two CSS selectors and two keys that are array indices
SelectorKeys == {"#a", "#b", "1", "2"}
SelectorValues == {"click", "text"}

\* form_data.json as written, and whether a screenshot path was given
FormInputs ==
  {[listed |-> l, screenshotPath |-> sp] :
     l \in UNION {[1..n -> SelectorKeys \X SelectorValues] : n \in 0..MaxSelectors},
     sp \in BOOLEAN}

\* the key is a canonical array index
IsIndexKey(key) == key \in {"1", "2"}
IndexOfKey(key) == IF key = "1" THEN 1 ELSE 2

\* JSON.parse: a member named again keeps its place and takes the new value
FirstAt(listed, key) ==
  CHOOSE j \in DOMAIN listed : listed[j][1] = key /\ \A l \in 1..(j - 1) : listed[l][1] # key
LastValue(listed, key) ==
  listed[CHOOSE j \in DOMAIN listed :
           listed[j][1] = key /\ \A l \in (j + 1)..Len(listed) : listed[l][1] # key][2]

\* the order of the own keys of an object: array indices in ascending
\* order, then the other keys in the order they were first set
KeyBefore(listed, key1, key2) ==
  IF IsIndexKey(key1) /\ IsIndexKey(key2) THEN IndexOfKey(key1) < IndexOfKey(key2)
  ELSE IF IsIndexKey(key1) # IsIndexKey(key2) THEN IsIndexKey(key1)
  ELSE FirstAt(listed, key1) < FirstAt(listed, key2)

\* Object.entries(JSON.parse(text).selectors)
ObjectEntries(listed) ==
  LET keys == {listed[j][1] : j \in DOMAIN listed}
      KeyAt(n) == CHOOSE key \in keys :
                    Cardinality({other \in keys : KeyBefore(listed, other, key)}) = n - 1
  IN [n \in 1..Cardinality(keys) |-> <<KeyAt(n), LastValue(listed, KeyAt(n))>>]

\* every value typed instead of clicked
ActionKindAlwaysType(value) == "type"

\* if (value === 'click') page.click(selector) else waitForSelector and type
ActionKind(value) == IF value = "click" THEN "click" ELSE "type"

InitForm ==
  /\ NoRun /\ NoPagination
  /\ call = "fillForm" /\ input \in FormInputs
  /\ result = <<[at |-> "setup", k |-> 1, actions |-> <<>>, launched |-> FALSE,
                 inLoop |-> FALSE, caught |-> FALSE, errorShot |-> FALSE,
                 pending |-> FALSE, exitCode |-> Running]>>

\* a step of fillForm from `at`
FillForm(at, next) ==
  /\ call = "fillForm" /\ Run.at = at
  /\ result' = <<next>>
  /\ UNCHANGED <<call, input>> /\ UNCHANGED runVars /\ UNCHANGED pageVars

\* readFileSync and JSON.parse, then puppeteer.launch, newPage, setViewport,
\* goto: each may throw, before or after browser is set
SetupForm ==
  \/ FillForm("setup", [Run EXCEPT !.at = "for", !.launched = TRUE])
  \/ \E b \in BOOLEAN : FillForm("setup", [Run EXCEPT !.at = "catch", !.launched = b])

\* for (const [selector, value] of Object.entries(formData.selectors))
ForSelector ==
  FillForm("for", [Run EXCEPT !.at = IF Run.k > Len(ObjectEntries(input.listed))
                                     THEN "navigation" ELSE "act"])

\* page.click(selector), or page.waitForSelector(selector) and
\* page.type(selector, String(value)); each may throw, and does for a key
\* like '1', which is no CSS selector
ClickOrType ==
  /\ call = "fillForm" /\ Run.at = "act"
  /\ LET entry == ObjectEntries(input.listed)[Run.k]
     IN \/ /\ ~IsIndexKey(entry[1])
           /\ FillForm("act",
                    [Run EXCEPT !.at = "delay",
                                !.actions = Append(Run.actions,
                                                      [selector |-> entry[1],
                                                       kind |-> ActionKind(entry[2])])])
        \/ FillForm("act", [Run EXCEPT !.at = "catch", !.inLoop = TRUE])

\* await page.waitForTimeout(100)
DelayForm ==
  \/ FillForm("delay", [Run EXCEPT !.at = "for", !.k = Run.k + 1])
  \/ FillForm("delay", [Run EXCEPT !.at = "catch", !.inLoop = TRUE])

\* if (formData.wait_for_navigation) await page.waitForNavigation(...).catch(...)
WaitForNavigation == FillForm("navigation", [Run EXCEPT !.at = "screenshot"])

\* if (screenshotPath) await page.screenshot(...)
ScreenshotForm ==
  \/ FillForm("screenshot", [Run EXCEPT !.at = "finally"])
  \/ input.screenshotPath /\ FillForm("screenshot", [Run EXCEPT !.at = "catch"])

\* catch (error): if (browser) the first page is asked for and, with a
\* screenshot path, photographed; then process.exit(1).  An exception of
\* browser.pages() or page.screenshot() leaves the catch block.
CatchForm ==
  \/ FillForm("catch", [Run EXCEPT !.caught = TRUE, !.exitCode = 1, !.at = "ended",
                                   !.errorShot = Run.launched /\ input.screenshotPath])
  \/ /\ Run.launched
     /\ FillForm("catch", [Run EXCEPT !.caught = TRUE, !.pending = TRUE, !.at = "finally",
                                      !.errorShot = input.screenshotPath])

\* finally { if (browser) await browser.close() }; a pending exception then
\* rejects the promise of fillForm, which nothing handles: status 1
FinallyForm ==
  FillForm("finally", [Run EXCEPT !.at = "ended",
                                  !.exitCode = IF Run.pending THEN 1 ELSE 0])

NextForm ==
  \/ SetupForm
  \/ ForSelector
  \/ ClickOrType
  \/ DelayForm
  \/ WaitForNavigation
  \/ ScreenshotForm
  \/ CatchForm
  \/ FinallyForm

\* fill_form.js on every form_data.json
SpecForm == InitForm /\ [][NextForm]_vars

\* the actions done are the first members of the list, in its order, each
\* clicked when its value is 'click' and typed into otherwise
InListedOrder ==
  /\ Len(Run.actions) <= Len(input.listed)
  /\ \A j \in DOMAIN Run.actions :
       /\ Run.actions[j].selector = input.listed[j][1]
       /\ Run.actions[j].kind = IF input.listed[j][2] = "click" THEN "click" ELSE "type"

\* the members of the list have distinct names, none an array index
PlainDistinctKeys ==
  /\ \A j \in DOMAIN input.listed : ~IsIndexKey(input.listed[j][1])
  /\ \A j \in DOMAIN input.listed : \A l \in DOMAIN input.listed :
       input.listed[j][1] = input.listed[l][1] => j = l

\* one action at a time; after a failure no action, and the run ends with
\* status 1 after going for the error screenshot if a path was given
C27_Step ==
  (call = "fillForm" /\ result' # result)
    => /\ Len(result'[1].actions) <= Len(Run.actions) + 1
       /\ Run.caught \/ Run.at = "catch" => result'[1].actions = Run.actions
       /\ Run.at \in {"act", "delay"} /\ result'[1].at # "catch" => ~result'[1].inLoop

C27_Failure ==
  (call = "fillForm" /\ Run.at = "ended" /\ Run.inLoop)
    => /\ Run.exitCode = 1
       /\ input.screenshotPath => Run.errorShot

-----------------------------------------------------------------------------
(* annotate_pdf.js, fill_pdf_template.js and merge_pdfs_js.js.             *)

\* the state of a loop over entries: what was drawn (the entry and the
\* page, counted from 1), which entries were warned about, and whether an
\* exception ended the loop
NothingDone == [drawn |-> <<>>, warnings |-> <<>>, thrown |-> FALSE]

\* const pageIndex = (entry.page || 1) - 1
PageIndex(entry) == OrDefault(entry.page, Num(1)).n - 1

\* the loop body for entry k.  With the test
\*   if (pageIndex < 0 || pageIndex >= pdfDoc.getPageCount()) { warn; continue }
\* (checked) or without it; pdfDoc.getPage(pageIndex) throws for an index
\* that is not one of the document's
RECURSIVE DrawEntries(_, _, _, _, _)
DrawEntries(pageCount, entries, checked, k, done) ==
  IF k > Len(entries) \/ done.thrown THEN done
  ELSE LET pageIndex == PageIndex(entries[k])
       IN IF checked /\ (pageIndex < 0 \/ pageIndex >= pageCount)
          THEN DrawEntries(pageCount, entries, checked, k + 1,
                           [done EXCEPT !.warnings = Append(@, k)])
          ELSE IF pageIndex \notin 0..(pageCount - 1)
          THEN [done EXCEPT !.thrown = TRUE]
          ELSE DrawEntries(pageCount, entries, checked, k + 1,
                           [done EXCEPT !.drawn = Append(@, <<k, pageIndex + 1>>)])

\* annotatePDF once the document and the annotations are read: the loop,
\* then save and writeFileSync; an exception goes to catch and process.exit(1)
annotatePDF(pageCount, annotations) ==
  LET done == DrawEntries(pageCount, annotations, TRUE, 1, NothingDone)
  IN [annotations |-> done,
      written |-> ~done.thrown,
      exitCode |-> IF done.thrown THEN 1 ELSE 0]

\* fillPDFTemplate once the template and the data are read: the fields,
\* then the images, then save and writeFileSync
fillPDFTemplate(pageCount, data) ==
  LET fields == DrawEntries(pageCount, data.fields, TRUE, 1, NothingDone)
      images == IF fields.thrown THEN NothingDone
                ELSE DrawEntries(pageCount, data.images, FALSE, 1, NothingDone)
  IN [fields |-> fields,
      images |-> images,
      written |-> ~fields.thrown /\ ~images.thrown,
      exitCode |-> IF fields.thrown \/ images.thrown THEN 1 ELSE 0]

\* addPage putting the page in front
AddPageInFront(merged, copiedPage) == <<copiedPage>> \o merged

\* mergedPdf.addPage(page)
AddPage(merged, copiedPage) == Append(merged, copiedPage)

\* copiedPages.forEach(page => mergedPdf.addPage(page))
RECURSIVE AddPages(_, _, _)
AddPages(merged, copiedPages, k) ==
  IF k > Len(copiedPages) THEN merged
  ELSE AddPages(AddPage(merged, copiedPages[k]), copiedPages, k + 1)

\* for (const inputPath of inputPaths): readFileSync and PDFDocument.load
\* throw for a file that cannot be read or parsed
RECURSIVE MergeLoop(_, _, _)
MergeLoop(inputs, k, merged) ==
  IF k > Len(inputs) THEN [pages |-> merged, thrown |-> FALSE]
  ELSE IF ~inputs[k].readable THEN [pages |-> merged, thrown |-> TRUE]
  ELSE MergeLoop(inputs, k + 1, AddPages(merged, inputs[k].pages, 1))

\* mergePDFs: the loop, then save and writeFileSync (which may throw); an
\* exception goes to catch and process.exit(1)
mergePDFs(inputs, writable) ==
  LET loop == MergeLoop(inputs, 1, <<>>)
  IN IF loop.thrown \/ ~writable
     THEN [written |-> FALSE, pages |-> <<>>, exitCode |-> 1]
     ELSE [written |-> TRUE, pages |-> loop.pages, exitCode |-> 0]

\* most pages of an annotated document, most entries of a list, most input
\* files of a merge
MaxPdfPages == 2
MaxEntries == 2
MaxInputs == 3

\* "page" of an entry: absent, or a number from 0 to one past the last page
EntryPages == {Undef} \cup {Num(n) : n \in 0..(MaxPdfPages + 1)}
EntryLists == UNION {[1..n -> {[page |-> pg] : pg \in EntryPages}] : n \in 0..MaxEntries}

AnnotateInputs == {[pageCount |-> n, annotations |-> a] : n \in 1..MaxPdfPages, a \in EntryLists}
FillInputs ==
  {[pageCount |-> n, data |-> [fields |-> f, images |-> g]] :
     n \in 1..MaxPdfPages, f \in EntryLists, g \in EntryLists}

\* the input files of a merge: of two pages, of one page, of no page, and
\* one that cannot be read
PdfFiles ==
  {[readable |-> TRUE, pages |-> <<"a1", "a2">>], [readable |-> TRUE, pages |-> <<"b1">>],
   [readable |-> TRUE, pages |-> <<>>], [readable |-> FALSE, pages |-> <<>>]}
MergeInputs ==
  {[inputs |-> l, writable |-> w] :
     l \in UNION {[1..n -> PdfFiles] : n \in 0..MaxInputs}, w \in BOOLEAN}

InitPdf ==
  \/ InitCall("annotatePDF", AnnotateInputs)
  \/ InitCall("fillPDFTemplate", FillInputs)
  \/ InitCall("mergePDFs", MergeInputs)

CallAnnotatePDF == Apply("annotatePDF", annotatePDF(input.pageCount, input.annotations))
CallFillPDFTemplate == Apply("fillPDFTemplate", fillPDFTemplate(input.pageCount, input.data))
CallMergePDFs == Apply("mergePDFs", mergePDFs(input.inputs, input.writable))

NextPdf ==
  \/ CallAnnotatePDF
  \/ CallFillPDFTemplate
  \/ CallMergePDFs

\* the PDF scripts on every input
SpecPdf == InitPdf /\ [][NextPdf]_vars

\* the entry names a page that the document does not have
NoSuchPage(entry) == entry.page # Undef /\ entry.page.n \notin 1..input.pageCount

\* every entry of the list that names a non-existent page was warned about
\* and not drawn, every other one was drawn on its page
SkippedOrDrawn(entries, done) ==
  /\ ~done.thrown
  /\ \A k \in DOMAIN entries :
       IF NoSuchPage(entries[k])
       THEN /\ \E j \in DOMAIN done.warnings : done.warnings[j] = k
            /\ \A j \in DOMAIN done.drawn : done.drawn[j][1] # k
       ELSE /\ \E j \in DOMAIN done.drawn :
                 /\ done.drawn[j][1] = k
                 /\ done.drawn[j][2] = IF entries[k].page = Undef THEN 1 ELSE entries[k].page.n
            /\ \A j \in DOMAIN done.warnings : done.warnings[j] # k

\* C28: annotatePDF and fillPDFTemplate skip, with a warning, every
\* annotation, field or image whose page number lies outside 1..pageCount
\* and go on with the remaining entries; such an entry never aborts the run
\* or prevents the output PDF from being written.
C28_BadPagesSkipped ==
  /\ Called("annotatePDF") =>
       /\ Returned.written /\ Returned.exitCode = 0
       /\ SkippedOrDrawn(input.annotations, Returned.annotations)
  /\ Called("fillPDFTemplate") =>
       /\ Returned.written /\ Returned.exitCode = 0
       /\ SkippedOrDrawn(input.data.fields, Returned.fields)
       /\ SkippedOrDrawn(input.data.images, Returned.images)

\* where the pages of input file j begin in the merged document
RECURSIVE Offset(_, _)
Offset(inputs, j) == IF j = 1 THEN 0 ELSE Offset(inputs, j - 1) + Len(inputs[j - 1].pages)

\* C29: mergePDFs writes a document whose pages are the pages of the input
\* documents in command-line order, as many as the inputs have together; if
\* an input cannot be read or parsed, no output is written and the exit
\* status is 1.
C29_MergeIsConcatenation ==
  Called("mergePDFs") =>
    LET inputs == input.inputs
    IN /\ (\E j \in DOMAIN inputs : ~inputs[j].readable)
            => ~Returned.written /\ Returned.exitCode = 1
       /\ Returned.written =>
            /\ Returned.exitCode = 0
            /\ Len(Returned.pages) = Offset(inputs, Len(inputs) + 1)
            /\ \A j \in DOMAIN inputs : \A n \in DOMAIN inputs[j].pages :
                 Returned.pages[Offset(inputs, j) + n] = inputs[j].pages[n]
       /\ ((\A j \in DOMAIN inputs : inputs[j].readable) /\ input.writable) => Returned.written

\* C29 witness: b1, then a1 a2, then b1 again, merged into four pages.
C29_Witness ==
  /\ Called("mergePDFs")
  /\ Returned.written /\ Returned.pages = <<"b1", "a1", "a2", "b1">>

-----------------------------------------------------------------------------
(* excel_advanced.js: the loop of getColumnLetter, one iteration at a time. *)

\* the largest column number tried
MaxColumn == 750

InitLetters ==
  /\ NoRun /\ NoPagination
  /\ call = "getColumnLetter" /\ input \in {[n |-> n] : n \in 0..MaxColumn}
  /\ result = <<[at |-> "while", colNumber |-> input.n, letter |-> ""]>>

\* while (colNumber > 0) { modulo = (colNumber - 1) % 26;
\*   letter = String.fromCharCode(65 + modulo) + letter; colNumber = ... }
WhileColNumber ==
  /\ call = "getColumnLetter" /\ Run.at = "while" /\ Run.colNumber > 0
  /\ LET modulo == (Run.colNumber - 1) % 26
     IN result' = <<[at |-> "while",
                     colNumber |-> NextColNumber(Run.colNumber, modulo),
                     letter |-> Letters[modulo + 1] \o Run.letter]>>
  /\ UNCHANGED <<call, input>> /\ UNCHANGED runVars /\ UNCHANGED pageVars

\* return letter
ReturnLetter ==
  /\ call = "getColumnLetter" /\ Run.at = "while" /\ ~(Run.colNumber > 0)
  /\ result' = <<[Run EXCEPT !.at = "return"]>>
  /\ UNCHANGED <<call, input>> /\ UNCHANGED runVars /\ UNCHANGED pageVars

NextLetters ==
  \/ WhileColNumber
  \/ ReturnLetter

\* getColumnLetter on every column number up to MaxColumn; the loop is
\* sequential code, so an enabled step is taken
SpecLetters == InitLetters /\ [][NextLetters]_vars /\ WF_vars(NextLetters)

\* the bijective base-26 label of n, written out for one, two and three
\* letters: A..Z are the digits 1..26 and there is no zero digit
ColumnLabel(n) ==
  IF n = 0 THEN ""
  ELSE IF n <= 26 THEN Letters[n]
  ELSE IF n <= 702 THEN Letters[((n - 27) \div 26) + 1] \o Letters[((n - 27) % 26) + 1]
  ELSE Letters[((n - 703) \div 676) + 1] \o Letters[(((n - 703) \div 26) % 26) + 1]
         \o Letters[((n - 703) % 26) + 1]

\* the examples of the claim
LabelExamples ==
  /\ input.n = 1 => Run.letter = "A"
  /\ input.n = 26 => Run.letter = "Z"
  /\ input.n = 27 => Run.letter = "AA"
  /\ input.n = 52 => Run.letter = "AZ"
  /\ input.n = 702 => Run.letter = "ZZ"
  /\ input.n = 703 => Run.letter = "AAA"

\* what getColumnLetter returns
LabelReturned ==
  (call = "getColumnLetter" /\ Run.at = "return") =>
    /\ Run.letter = ColumnLabel(input.n)
    /\ Run.letter = getColumnLetter(input.n)
    /\ LabelExamples
    /\ input.n = 0 <=> Run.letter = ""
    /\ \A m \in 1..MaxColumn : m # input.n => getColumnLetter(m) # Run.letter

\* every iteration makes colNumber smaller
C30_Step ==
  (call = "getColumnLetter" /\ Run.at = "while" /\ Run'.at = "while" /\ Run' # Run)
    => Run'.colNumber < Run.colNumber /\ Run'.colNumber >= 0

\* C30: getColumnLetter(n) terminates for every integer n >= 1 and returns
\* the bijective base-26 column label of n (1 -> A, 26 -> Z, 27 -> AA,
\* 52 -> AZ, 702 -> ZZ, 703 -> AAA), so distinct n give distinct labels;
\* for n = 0 it returns the empty string.
C30_ColumnLetterIsBijective ==
  /\ []LabelReturned
  /\ [][C30_Step]_vars
  /\ <>(call = "getColumnLetter" /\ Run.at = "return")

\* C30 witness: 703, the first column of three letters, returned as AAA
\* after three iterations.
C30_Witness ==
  /\ call = "getColumnLetter" /\ Run.at = "return"
  /\ input.n = 703 /\ Run.letter = "AAA" /\ Run.colNumber = 0

====
